---- MODULE Spec2Model ----
(***************************************************************************)
(* Model of StatsManager (src/main.py): the persisted attempt log and the  *)
(* goal list of the quiz trainer.  The in-memory dict self.data and the    *)
(* progress file are the state; every public method is one action.         *)
(***************************************************************************)
EXTENDS Integers, Sequences, FiniteSets, TLC

\* ---------------------------------------------------------------- bounds
MaxGoals == 3          \* longest goal list the model builds
MaxGoalId == 3         \* largest goal id add_goal / set_goal may hand out
MaxAttempts == 2       \* longest attempt log the model builds
MaxStore == 4          \* most goals and attempts together the model builds
MaxWriteFailures == 1  \* failed writes of the progress file per behaviour
MaxFileGoals == 2      \* longest goal list of an initial progress file
MaxIssued == 3         \* add_goal calls whose returned ids are remembered
MaxIOGoals == 1        \* longest goal list where writes may fail (SpecIO)
MaxIOAttempts == 1     \* longest attempt log where writes may fail (SpecIO)
MaxLog == 3            \* longest attempt log the statistics are computed on
MaxWindow == 2         \* largest window argument of the statistics
MaxPracticeLog == 3    \* longest attempt log a practice answer is added to
MaxExamStart == 1      \* longest attempt log an exam is started on
MaxBank == 3           \* most questions the editor holds
MaxQuestionId == 4     \* largest id the editor gives a new question
MaxEditors == 2        \* editor processes the quiz window launches

\* ------------------------------------------------------- Python values
\* None is the empty tuple and a present optional value a 1-tuple.
PyNone == <<>>
Some(v) == <<v>>

\* A number keeps its Python type: 75 and 75.0 are different values.
PyInt(n) == [k |-> "int", n |-> n]
PyFloat(n) == [k |-> "float", n |-> n]

\* float(x)
ToFloat(x) == [k |-> "float", n |-> x.n]

\* Python's numeric ==, which ignores the int/float distinction
NumEq(a, b) == a.n = b.n

SeqMin(S) == CHOOSE m \in S : \A x \in S : m <= x
SeqMax(S) == CHOOSE m \in S : \A x \in S : m >= x

\* dict.update: the entries of s override those of d
DictUpdate(d, s) ==
    [key \in (DOMAIN d) \cup (DOMAIN s) |-> IF key \in DOMAIN s THEN s[key] ELSE d[key]]

\* [x for x in seq if Keep(x)], order preserved
RECURSIVE FilterGoals(_, _)
FilterGoals(goals, goal_id) ==
    IF goals = <<>> THEN <<>>
    ELSE IF Head(goals).id # goal_id
         THEN <<Head(goals)>> \o FilterGoals(Tail(goals), goal_id)
         ELSE FilterGoals(Tail(goals), goal_id)

\* ------------------------------------------------------------- inputs
Question(i, th, cat) == [id |-> i, thematic |-> th, category |-> cat]
\* the calls of record_attempt the model makes: both questions, both outcomes,
\* both sources, with and without the optional timestamp
RecordInputs ==
    {[question |-> Question(1, "Flexion", "TF"), correct |-> TRUE,
      source |-> "practice", timestamp |-> PyNone],
     [question |-> Question(2, "Tous", "QCM"), correct |-> FALSE,
      source |-> "exam", timestamp |-> Some(10)]}
Now == 20                                  \* reading of time.time()
\* the (target_percent, label) arguments the model passes; the goals of an
\* initial file have another target and label
GoalInputs ==
    {[target_percent |-> PyInt(80), label |-> "m"]}
GoalIds == 1 .. MaxGoalId                  \* goal_id arguments, stored or not
\* (window, theme) arguments of moving_success: no filter, the "Tous"
\* pseudo-theme, and a real theme
MovingInputs ==
    { [window |-> 1, theme |-> PyNone],
      [window |-> 2, theme |-> Some("Tous")],
      [window |-> 2, theme |-> Some("Flexion")] }

\* the text of the target entry of the stats window, as a sequence of
\* characters, and what float() makes of it.  float() also accepts signs, a
\* decimal point, exponents and surrounding blanks; the texts of the model are
\* digit strings and texts that are no number at all.
DigitChars == <<"0", "1", "2", "3", "4", "5", "6", "7", "8", "9">>

RECURSIVE DecimalValue(_)
DecimalValue(text) ==
    LET DigitValue(c) == (CHOOSE i \in DOMAIN DigitChars : DigitChars[i] = c) - 1
    IN
        IF text = <<>> THEN 0
        ELSE 10 * DecimalValue(SubSeq(text, 1, Len(text) - 1)) + DigitValue(text[Len(text)])

\* float(text): PyNone stands for ValueError
float_of_text(text) ==
    LET IsDigit(c) == \E i \in DOMAIN DigitChars : DigitChars[i] = c
    IN
        IF text # <<>> /\ \A i \in DOMAIN text : IsDigit(text[i])
        THEN Some(PyFloat(DecimalValue(text)))
        ELSE PyNone

FeedbackInvalid == "Veuillez saisir un pourcentage valide."
FeedbackCreated == "Objectif cree et selectionne."
FeedbackUpdated == "Objectif mis a jour."

\* -------------------------------------------------------------- JSON text
\* The progress file holds JSON text.  A JSON number is written with a
\* decimal point exactly when the Python value is a float, and is read back
\* as a float exactly when it has one.
JNull == [j |-> "null"]
JInt(i) == [j |-> "number", digits |-> i, point |-> FALSE]
JFloat(i) == [j |-> "number", digits |-> i, point |-> TRUE]
JString(s) == [j |-> "string", chars |-> s]
JArray(items) == [j |-> "array", items |-> items]
JObject(members) == [j |-> "object", members |-> members]

\* json.dump(self.data, f)
json_dump(d) ==
    LET DumpNum(x) == IF x.k = "float" THEN JFloat(x.n) ELSE JInt(x.n)
        DumpOptNum(o) == IF o = PyNone THEN JNull ELSE DumpNum(o[1])
        DumpOptInt(o) == IF o = PyNone THEN JNull ELSE JInt(o[1])
        DumpBool(b) == [j |-> IF b THEN "true" ELSE "false"]
        DumpGoal(g) ==
            JObject([id |-> JInt(g.id), target |-> DumpNum(g.target), label |-> JString(g.label)])
        \* an attempt is written with the keys it has
        DumpAttempt(a) ==
            JObject([key \in DOMAIN a |->
                CASE key = "question_id" -> JInt(a.question_id)
                  [] key = "correct" -> DumpBool(a.correct)
                  [] key = "ts" -> JFloat(a.ts)
                  [] OTHER -> JString(a[key])])
        DumpLegacy(lg) ==
            JObject([key \in DOMAIN lg |->
                        IF key = "target" THEN DumpOptNum(lg.target) ELSE JString(lg[key])])
    IN
        JObject([key \in DOMAIN d |->
            CASE key = "attempts" -> JArray([i \in DOMAIN d.attempts |-> DumpAttempt(d.attempts[i])])
              [] key = "goals" -> JArray([i \in DOMAIN d.goals |-> DumpGoal(d.goals[i])])
              [] key = "active_goal_id" -> DumpOptInt(d.active_goal_id)
              [] key = "goal" -> DumpLegacy(d.goal)])

\* json.load(f) of a file whose text is a JSON object
json_load(t) ==
    LET ParseNum(v) == IF v.point THEN PyFloat(v.digits) ELSE PyInt(v.digits)
        ParseOptNum(v) == IF v.j = "null" THEN PyNone ELSE Some(ParseNum(v))
        ParseOptInt(v) == IF v.j = "null" THEN PyNone ELSE Some(v.digits)
        ParseGoal(v) ==
            [id |-> v.members.id.digits, target |-> ParseNum(v.members.target),
             label |-> v.members.label.chars]
        ParseAttempt(v) ==
            [key \in DOMAIN v.members |->
                CASE key = "question_id" -> v.members.question_id.digits
                  [] key = "correct" -> (v.members.correct.j = "true")
                  [] key = "ts" -> v.members.ts.digits
                  [] OTHER -> v.members[key].chars]
        ParseLegacy(v) ==
            [key \in DOMAIN v.members |->
                IF key = "target" THEN ParseOptNum(v.members.target) ELSE v.members[key].chars]
    IN
        [key \in DOMAIN t.members |->
            CASE key = "attempts" -> [i \in DOMAIN t.members.attempts.items |->
                                         ParseAttempt(t.members.attempts.items[i])]
              [] key = "goals" -> [i \in DOMAIN t.members.goals.items |->
                                      ParseGoal(t.members.goals.items[i])]
              [] key = "active_goal_id" -> ParseOptInt(t.members.active_goal_id)
              [] key = "goal" -> ParseLegacy(t.members.goal)]

\* ------------------------------------------------------- progress file
FileMissing == [kind |-> "missing", text |-> JNull]
FileCorrupt == [kind |-> "corrupt", text |-> JNull]       \* not JSON text
FileUndecodable == [kind |-> "undecodable", text |-> JNull] \* bytes that are not UTF-8
FileOf(text) == [kind |-> "json", text |-> text]

\* ------------------------------------------------------------- the store
VARIABLES
    data,      \* StatsManager.data, the in-memory dict
    disk,      \* the progress file at storage_path
    lastOp,    \* the last call: name, arguments, return value, completed or raised
    pre,       \* data and disk as they were when the last call started
    failures,  \* writes of the progress file that failed so far
    issued,    \* the ids add_goal returned, in call order (kept by SpecIds only)
    quiz,      \* QuizApp: the fields of the quiz session and the two buttons
    watch,     \* QuizApp.editor_processes, the pending after() callbacks and
               \* the editor processes that are running
    bank,      \* the question bank file
    editor,    \* QuestionEditor: questions and selected_question_id
    prev       \* quiz, watch, bank and editor as they were when the last
               \* call started

vars == <<data, disk, lastOp, pre, failures, issued, quiz, watch, bank, editor, prev>>

\* the variables of the two windows, which a StatsManager call leaves alone
ui == <<quiz, watch, bank, editor, prev>>

\* QuizApp.__init__ up to the construction of the StatsManager: no session,
\* no question loaded, no editor launched
NoQuiz ==
    [questions |-> <<>>, filtered_questions |-> <<>>, current_index |-> 0,
     score |-> 0, total |-> 0, exam_mode |-> FALSE, exam_user_answers |-> <<>>,
     timer_running |-> FALSE, current_theme |-> PyNone,
     submit_btn |-> "disabled", next_btn |-> "disabled"]

\* no editor launched: launched counts the Popen calls made so far, running
\* holds the processes that have not exited, timers counts the pending
\* after(1500, self._watch_question_editor) callbacks
NoWatch == [editor_processes |-> <<>>, timers |-> 0, running |-> {}, launched |-> 0]

\* no bank file, and no editor window
NoBank == [kind |-> "missing"]
NoEditor == [open |-> FALSE]

\* the state of a StatsManager on its own: the windows are not in use
UiIdle ==
    /\ quiz = NoQuiz
    /\ watch = NoWatch
    /\ bank = NoBank
    /\ editor = NoEditor
    /\ prev = [quiz |-> NoQuiz, watch |-> NoWatch, bank |-> NoBank, editor |-> NoEditor]

\* self.data as set by __init__ before load()
DefaultData == [attempts |-> <<>>, goals |-> <<>>, active_goal_id |-> PyNone]

\* index of the first goal whose id is target_id, 0 when there is none
GoalIndex(d, target_id) ==
    LET hits == {i \in DOMAIN d.goals : d.goals[i].id = target_id}
    IN IF hits = {} THEN 0 ELSE SeqMin(hits)

\* get_goal that falls back to the active goal when no goal has the id asked
get_goal_falls_back(d, goal_id) ==
    LET target_id == IF goal_id # PyNone /\ GoalIndex(d, goal_id[1]) # 0 THEN goal_id
                     ELSE d.active_goal_id
    IN IF target_id = PyNone THEN PyNone
       ELSE IF GoalIndex(d, target_id[1]) = 0 THEN PyNone
            ELSE Some(d.goals[GoalIndex(d, target_id[1])])

\* StatsManager.get_goal(goal_id=None): goal_id is PyNone or Some(id)
get_goal(d, goal_id) ==
    LET target_id == IF goal_id # PyNone THEN goal_id ELSE d.active_goal_id
    IN IF target_id = PyNone THEN PyNone
       ELSE IF GoalIndex(d, target_id[1]) = 0 THEN PyNone
            ELSE Some(d.goals[GoalIndex(d, target_id[1])])

\* _next_goal_id counting the goals instead of taking the largest id
_next_goal_id_by_count(d) == Len(d.goals) + 1

\* _next_goal_id without the "+ 1" once goals exist
_next_goal_id_repeats_max(d) ==
    IF d.goals = <<>> THEN 1 ELSE SeqMax({d.goals[i].id : i \in DOMAIN d.goals})

\* StatsManager._next_goal_id
_next_goal_id(d) ==
    (IF d.goals = <<>> THEN 0 ELSE SeqMax({d.goals[i].id : i \in DOMAIN d.goals})) + 1

\* StatsManager._filtered_attempts: theme is PyNone or Some(name)
_filtered_attempts(d, theme) ==
    IF theme = PyNone \/ theme = Some("Tous") THEN d.attempts
    ELSE SelectSeq(d.attempts, LAMBDA a : "theme" \in DOMAIN a /\ a.theme = theme[1])

\* a.get("ts", 0) and the truth of a.get("correct")
TsOf(a) == IF "ts" \in DOMAIN a THEN a.ts ELSE 0
IsCorrect(a) == "correct" \in DOMAIN a /\ a.correct

\* sum(1 for a in attempts if a.get("correct"))
CountCorrect(attempts) == Cardinality({i \in DOMAIN attempts : IsCorrect(attempts[i])})

\* (correct / total) * 100 if total else 0.0, as an exact fraction
Rate(correct, total) ==
    IF total # 0 THEN [num |-> 100 * correct, den |-> total] ELSE [num |-> 0, den |-> 1]

\* compute_overall that counts the correct attempts of the whole log
compute_overall_counts_all(d, theme) ==
    LET attempts == _filtered_attempts(d, theme)
        total == Len(attempts)
        correct == CountCorrect(d.attempts)
    IN [total |-> total, correct |-> correct, rate |-> Rate(correct, total)]

\* StatsManager.compute_overall
compute_overall(d, theme) ==
    LET attempts == _filtered_attempts(d, theme)
        total == Len(attempts)
        correct == CountCorrect(attempts)
    IN [total |-> total, correct |-> correct, rate |-> Rate(correct, total)]

\* attempt.get("theme", "Unknown")
ThemeOf(a) == IF "theme" \in DOMAIN a THEN a.theme ELSE "Unknown"

\* the loop of theme_breakdown counting every attempt as correct
RECURSIVE BreakdownLoop_all_correct(_, _, _)
BreakdownLoop_all_correct(attempts, idx, results) ==
    IF idx > Len(attempts) THEN results
    ELSE LET theme == ThemeOf(attempts[idx])
             old == IF theme \in DOMAIN results THEN results[theme]
                    ELSE [total |-> 0, correct |-> 0]
             new == [total |-> old.total + 1, correct |-> old.correct + 1]
         IN BreakdownLoop_all_correct(attempts, idx + 1,
                                      [t \in DOMAIN results \cup {theme} |->
                                          IF t = theme THEN new ELSE results[t]])

\* the first loop of theme_breakdown from position idx on; results maps the
\* themes met so far to their counts
RECURSIVE BreakdownLoop(_, _, _)
BreakdownLoop(attempts, idx, results) ==
    IF idx > Len(attempts) THEN results
    ELSE LET theme == ThemeOf(attempts[idx])
             old == IF theme \in DOMAIN results THEN results[theme]
                    ELSE [total |-> 0, correct |-> 0]
             new == [total |-> old.total + 1,
                     correct |-> old.correct + IF IsCorrect(attempts[idx]) THEN 1 ELSE 0]
         IN BreakdownLoop(attempts, idx + 1,
                          [t \in DOMAIN results \cup {theme} |->
                              IF t = theme THEN new ELSE results[t]])

\* StatsManager.theme_breakdown
theme_breakdown(d, theme) ==
    LET results == BreakdownLoop(_filtered_attempts(d, theme), 1, <<>>)
    IN [t \in DOMAIN results |->
           [total |-> results[t].total, correct |-> results[t].correct,
            rate |-> Rate(results[t].correct, results[t].total)]]

\* attempts[-window:] and attempts[-window * 2 : -window] for window >= 0
RecentSlice(attempts, window) ==
    IF window = 0 THEN attempts
    ELSE SubSeq(attempts, Len(attempts) - window + 1, Len(attempts))

\* the previous bucket taken from the start of the log (attempts[:window])
PreviousSlice_from_start(attempts, window) == SubSeq(attempts, 1, window)

PreviousSlice(attempts, window) ==
    IF window = 0 THEN <<>>
    ELSE SubSeq(attempts, Len(attempts) - 2 * window + 1, Len(attempts) - window)

\* progress_speed divides by window: ZeroDivisionError when it is 0
progress_speed_raises(d, window) == Len(d.attempts) >= window * 2 /\ window = 0

\* StatsManager.progress_speed where it returns; the difference of the two
\* rates is an exact fraction
progress_speed(d, window) ==
    IF Len(d.attempts) < window * 2 THEN PyNone
    ELSE Some([num |-> 100 * CountCorrect(RecentSlice(d.attempts, window))
                       - 100 * CountCorrect(PreviousSlice(d.attempts, window)),
               den |-> window])

\* sorted(attempts, key=ts): a stable insertion sort
\* an insertion that puts an attempt before those of the same timestamp:
\* the sort is no longer stable
RECURSIVE InsertByTs_before_ties(_, _)
InsertByTs_before_ties(sorted, a) ==
    IF sorted = <<>> THEN <<a>>
    ELSE IF TsOf(sorted[Len(sorted)]) < TsOf(a) THEN Append(sorted, a)
         ELSE Append(InsertByTs_before_ties(SubSeq(sorted, 1, Len(sorted) - 1), a),
                     sorted[Len(sorted)])

RECURSIVE InsertByTs(_, _)
InsertByTs(sorted, a) ==
    IF sorted = <<>> THEN <<a>>
    ELSE IF TsOf(sorted[Len(sorted)]) <= TsOf(a) THEN Append(sorted, a)
         ELSE Append(InsertByTs(SubSeq(sorted, 1, Len(sorted) - 1), a), sorted[Len(sorted)])

RECURSIVE SortedByTs(_)
SortedByTs(attempts) ==
    IF attempts = <<>> THEN <<>>
    ELSE InsertByTs(SortedByTs(SubSeq(attempts, 1, Len(attempts) - 1)),
                    attempts[Len(attempts)])

RECURSIVE SumSeq(_)
SumSeq(xs) == IF xs = <<>> THEN 0 ELSE Head(xs) + SumSeq(Tail(xs))

\* the loop of moving_success numbering the points from 0 (enumerate
\* without start=1)
RECURSIVE MovingLoop_from_zero(_, _, _, _, _)
MovingLoop_from_zero(attempts, idx, rolling, points, window) ==
    IF idx > Len(attempts) THEN points
    ELSE LET appended == Append(rolling, IF IsCorrect(attempts[idx]) THEN 1 ELSE 0)
             kept == IF Len(appended) > window THEN Tail(appended) ELSE appended
             rate == [num |-> 100 * SumSeq(kept), den |-> Len(kept)]
         IN MovingLoop_from_zero(attempts, idx + 1, kept,
                                 Append(points, <<idx - 1, rate>>), window)

\* the loop of moving_success from position idx on; a rate is the exact
\* fraction (sum(rolling) / len(rolling)) * 100
RECURSIVE MovingLoop(_, _, _, _, _)
MovingLoop(attempts, idx, rolling, points, window) ==
    IF idx > Len(attempts) THEN points
    ELSE LET appended == Append(rolling, IF IsCorrect(attempts[idx]) THEN 1 ELSE 0)
             kept == IF Len(appended) > window THEN Tail(appended) ELSE appended
             rate == [num |-> 100 * SumSeq(kept), den |-> Len(kept)]
         IN MovingLoop(attempts, idx + 1, kept, Append(points, <<idx, rate>>), window)

\* StatsManager.moving_success
moving_success(d, window, theme) ==
    MovingLoop(SortedByTs(_filtered_attempts(d, theme)), 1, <<>>, <<>>, window)

\* moving_success divides by len(rolling): ZeroDivisionError when the window
\* leaves rolling empty
moving_success_raises(d, window, theme) ==
    \E i \in DOMAIN moving_success(d, window, theme) :
        moving_success(d, window, theme)[i][2].den = 0

\* load that migrates the legacy goal without looking at the goals list
load_always_migrates(d, file) ==
    LET d1 == IF file.kind = "missing" THEN d
              ELSE IF file.kind = "corrupt" THEN DefaultData
              ELSE IF file.text.j = "object" THEN DictUpdate(d, json_load(file.text))
              ELSE d
        legacy_goal == IF "goal" \in DOMAIN d1 THEN Some(d1.goal) ELSE PyNone
        goals0 == IF "goals" \in DOMAIN d1 THEN d1.goals ELSE <<>>
        tgt == IF legacy_goal = PyNone THEN PyNone ELSE legacy_goal[1].target
        migrate == legacy_goal # PyNone /\ tgt # PyNone
        goals == IF migrate
                 THEN Append(goals0, [id |-> 1, target |-> ToFloat(tgt[1]),
                                      label |-> IF "label" \in DOMAIN legacy_goal[1]
                                                THEN legacy_goal[1].label ELSE ""])
                 ELSE goals0
        d2 == IF migrate THEN DictUpdate(d1, [active_goal_id |-> Some(1)]) ELSE d1
        d3 == DictUpdate(d2, [goals |-> goals])
        d4 == IF "active_goal_id" \in DOMAIN d3 THEN d3
              ELSE DictUpdate(d3, [active_goal_id |-> PyNone])
        d5 == IF "attempts" \in DOMAIN d4 THEN d4 ELSE DictUpdate(d4, [attempts |-> <<>>])
    IN IF goals # <<>> /\ d5.active_goal_id = PyNone
       THEN [d5 EXCEPT !.active_goal_id = Some(goals[1].id)]
       ELSE d5

\* load that migrates the legacy goal but leaves the stored pointer alone
load_keeps_pointer(d, file) ==
    LET d1 == IF file.kind = "missing" THEN d
              ELSE IF file.kind = "corrupt" THEN DefaultData
              ELSE IF file.text.j = "object" THEN DictUpdate(d, json_load(file.text))
              ELSE d
        legacy_goal == IF "goal" \in DOMAIN d1 THEN Some(d1.goal) ELSE PyNone
        goals0 == IF "goals" \in DOMAIN d1 THEN d1.goals ELSE <<>>
        tgt == IF legacy_goal = PyNone THEN PyNone ELSE legacy_goal[1].target
        migrate == goals0 = <<>> /\ legacy_goal # PyNone /\ tgt # PyNone
        goals == IF migrate
                 THEN <<[id |-> 1, target |-> ToFloat(tgt[1]),
                         label |-> IF "label" \in DOMAIN legacy_goal[1]
                                   THEN legacy_goal[1].label ELSE ""]>>
                 ELSE goals0
        d3 == DictUpdate(d1, [goals |-> goals])
        d4 == IF "active_goal_id" \in DOMAIN d3 THEN d3
              ELSE DictUpdate(d3, [active_goal_id |-> PyNone])
        d5 == IF "attempts" \in DOMAIN d4 THEN d4 ELSE DictUpdate(d4, [attempts |-> <<>>])
    IN IF goals # <<>> /\ d5.active_goal_id = PyNone
       THEN [d5 EXCEPT !.active_goal_id = Some(goals[1].id)]
       ELSE d5

\* StatsManager.load, from the dict d that __init__ prepared
load(d, file) ==
    LET d1 == IF file.kind = "missing" THEN d
              ELSE IF file.kind = "corrupt" THEN DefaultData
              ELSE IF file.text.j = "object" THEN DictUpdate(d, json_load(file.text))
              ELSE d
        legacy_goal == IF "goal" \in DOMAIN d1 THEN Some(d1.goal) ELSE PyNone
        goals0 == IF "goals" \in DOMAIN d1 THEN d1.goals ELSE <<>>
        tgt == IF legacy_goal = PyNone THEN PyNone ELSE legacy_goal[1].target
        migrate == goals0 = <<>> /\ legacy_goal # PyNone /\ tgt # PyNone
        goals == IF migrate
                 THEN <<[id |-> 1, target |-> ToFloat(tgt[1]),
                         label |-> IF "label" \in DOMAIN legacy_goal[1]
                                   THEN legacy_goal[1].label ELSE ""]>>
                 ELSE goals0
        d2 == IF migrate THEN DictUpdate(d1, [active_goal_id |-> Some(1)]) ELSE d1
        d3 == DictUpdate(d2, [goals |-> goals])
        d4 == IF "active_goal_id" \in DOMAIN d3 THEN d3
              ELSE DictUpdate(d3, [active_goal_id |-> PyNone])
        d5 == IF "attempts" \in DOMAIN d4 THEN d4 ELSE DictUpdate(d4, [attempts |-> <<>>])
    IN IF goals # <<>> /\ d5.active_goal_id = PyNone
       THEN [d5 EXCEPT !.active_goal_id = Some(goals[1].id)]
       ELSE d5

\* json.load(f) raises an exception that load() does not catch: reading the
\* file as UTF-8 fails with UnicodeDecodeError, which is not a JSONDecodeError
LoadRaises(file) == file.kind = "undecodable"

\* a StatsManager exists: the last construction did not raise
Constructed == ~(lastOp.name = "__init__" /\ ~lastOp.ok)

\* save() mirroring the first goal of the list instead of the active one
save_mirror_first_goal(d) ==
    DictUpdate(d, [goal |-> IF d.goals # <<>>
                            THEN [target |-> Some(d.goals[1].target),
                                  label |-> d.goals[1].label]
                            ELSE [target |-> PyNone, label |-> ""]])

\* the assignment to self.data["goal"] at the start of save()
save_mirror(d) ==
    LET active_goal == get_goal(d, PyNone)
    IN DictUpdate(d, [goal |-> IF active_goal # PyNone
                               THEN [target |-> Some(active_goal[1].target),
                                     label |-> active_goal[1].label]
                               ELSE [target |-> PyNone, label |-> ""]])

\* How the write at the end of save() can go: it succeeds, mkdir()/open()
\* raises and the file is untouched, or json.dump raises after open("w")
\* truncated the file and what is left is not JSON text.
WriteOutcomes == {"ok", "open_failed", "partial"}

save_file(d, old, w) ==
    CASE w = "ok" -> FileOf(json_dump(d))
      [] w = "open_failed" -> old
      [] w = "partial" -> FileCorrupt

CanWrite(w) == w \in WriteOutcomes /\ (w # "ok" => failures < MaxWriteFailures)

\* save() wrapped in try/except: a failed write is swallowed and the method
\* returns normally
Saved_swallowing(name, args, ret, d, w) ==
    /\ Constructed
    /\ CanWrite(w)
    /\ Len(d.goals) + Len(d.attempts) <= MaxStore
    /\ data' = save_mirror(d)
    /\ disk' = save_file(save_mirror(d), disk, w)
    /\ failures' = IF w = "ok" THEN failures ELSE failures + 1
    /\ lastOp' = [name |-> name, args |-> args, ret |-> ret, ok |-> TRUE]
    /\ pre' = [data |-> data, disk |-> disk, failures |-> failures]

\* The tail shared by every method that ends in self.save(): d is self.data
\* as the method body left it.
Saved(name, args, ret, d, w) ==
    /\ Constructed
    /\ CanWrite(w)
    /\ Len(d.goals) + Len(d.attempts) <= MaxStore
    /\ data' = save_mirror(d)
    /\ disk' = save_file(save_mirror(d), disk, w)
    /\ failures' = IF w = "ok" THEN failures ELSE failures + 1
    /\ lastOp' = [name |-> name, args |-> args, ret |-> ret, ok |-> (w = "ok")]
    /\ pre' = [data |-> data, disk |-> disk, failures |-> failures]

\* A method that returns without calling save()
Returned(name, args, ret) ==
    /\ Constructed
    /\ lastOp' = [name |-> name, args |-> args, ret |-> ret, ok |-> TRUE]
    /\ pre' = [data |-> data, disk |-> disk, failures |-> failures]
    /\ UNCHANGED <<data, disk, failures>>

\* A method that raises without having changed anything
Raised(name, args) ==
    /\ Constructed
    /\ lastOp' = [name |-> name, args |-> args, ret |-> PyNone, ok |-> FALSE]
    /\ pre' = [data |-> data, disk |-> disk, failures |-> failures]
    /\ UNCHANGED <<data, disk, failures>>

\* -------------------------------------------- progress files found at start
\* What storage_path can hold when the application starts: nothing, text
\* that is not JSON, JSON that is not an object, a file of the legacy format
\* (a "goal" object and perhaps attempts), or a file of the current format.
\* The goals of such a file need not come from this program: ids may repeat,
\* need not start at 1 and the pointer may name no goal.
FileGoal(i) == [id |-> i, target |-> PyFloat(50), label |-> ""]
FileGoalIds == 1 .. 2
FileGoalLists ==
    UNION {[1 .. n -> {FileGoal(i) : i \in FileGoalIds}] : n \in 0 .. MaxFileGoals}
FileAttempt ==
    [question_id |-> 1, theme |-> "Flexion", category |-> "TF", correct |-> TRUE,
     source |-> "practice", ts |-> Now]
FileAttemptLists == {<<>>, <<FileAttempt>>}
FileLegacyGoals ==
    {[target |-> PyNone, label |-> ""], [target |-> Some(PyInt(75)), label |-> "x"],
     [target |-> Some(PyInt(75))]}

LegacyFileDicts ==
    {[goal |-> lg] : lg \in FileLegacyGoals}
    \cup {[goal |-> lg, attempts |-> att] : lg \in FileLegacyGoals, att \in FileAttemptLists}
    \cup {[goal |-> lg, goals |-> <<>>, active_goal_id |-> Some(2)] : lg \in FileLegacyGoals}

CurrentFileDicts ==
    {[attempts |-> att, goals |-> gl, active_goal_id |-> act] :
        att \in FileAttemptLists, gl \in FileGoalLists,
        act \in {PyNone} \cup {Some(i) : i \in FileGoalIds}}
    \cup {[goals |-> gl] : gl \in FileGoalLists}

FileDicts == LegacyFileDicts \cup CurrentFileDicts

InitialFiles ==
    {FileMissing, FileCorrupt, FileUndecodable, FileOf(JArray(<<>>))} \cup {FileOf(json_dump(d)) : d \in FileDicts}

\* StatsManager.__init__
Init ==
    /\ disk \in InitialFiles
    /\ data = IF LoadRaises(disk) THEN DefaultData ELSE load(DefaultData, disk)
    /\ lastOp = [name |-> "__init__", args |-> <<>>, ret |-> PyNone, ok |-> ~LoadRaises(disk)]
    /\ pre = [data |-> DefaultData, disk |-> disk, failures |-> 0]
    /\ failures = 0
    /\ issued = <<>>
    /\ UiIdle

\* The application is started again: a new StatsManager on the same file.
Restart ==
    /\ data' = IF LoadRaises(disk) THEN DefaultData ELSE load(DefaultData, disk)
    /\ lastOp' = [name |-> "__init__", args |-> <<>>, ret |-> PyNone, ok |-> ~LoadRaises(disk)]
    /\ pre' = [data |-> data, disk |-> disk, failures |-> failures]
    /\ UNCHANGED <<disk, failures>>

\* ------------------------------------------------------------ operations
\* record_attempt that puts the new attempt first (insert(0, ...))
record_attempt_prepends(question, correct, source, timestamp, w) ==
    LET payload == [question_id |-> question.id, theme |-> question.thematic,
                    category |-> question.category, correct |-> correct,
                    source |-> source,
                    ts |-> IF timestamp # PyNone THEN timestamp[1] ELSE Now]
        args == [question |-> question, correct |-> correct, source |-> source,
                 timestamp |-> timestamp]
    IN /\ Len(data.attempts) < MaxAttempts
       /\ Saved("record_attempt", args, PyNone,
                [data EXCEPT !.attempts = <<payload>> \o @], w)

\* StatsManager.record_attempt
record_attempt(question, correct, source, timestamp, w) ==
    LET payload == [question_id |-> question.id, theme |-> question.thematic,
                    category |-> question.category, correct |-> correct,
                    source |-> source,
                    ts |-> IF timestamp # PyNone THEN timestamp[1] ELSE Now]
        args == [question |-> question, correct |-> correct, source |-> source,
                 timestamp |-> timestamp]
    IN /\ Len(data.attempts) < MaxAttempts
       /\ Saved("record_attempt", args, PyNone,
                [data EXCEPT !.attempts = Append(@, payload)], w)

\* StatsManager.get_goal as a call of its own
GetGoal(goal_id) ==
    Returned("get_goal", [goal_id |-> goal_id], get_goal(data, goal_id))

\* StatsManager.moving_success as a call of its own
MovingSuccess(window, theme) ==
    IF moving_success_raises(data, window, theme)
    THEN Raised("moving_success", [window |-> window, theme |-> theme])
    ELSE Returned("moving_success", [window |-> window, theme |-> theme],
                  moving_success(data, window, theme))

\* StatsManager.compute_overall as a call of its own
ComputeOverall(theme) ==
    Returned("compute_overall", [theme |-> theme], compute_overall(data, theme))

\* StatsManager.theme_breakdown as a call of its own
ThemeBreakdown(theme) ==
    Returned("theme_breakdown", [theme |-> theme], theme_breakdown(data, theme))

\* StatsManager.progress_speed as a call of its own
ProgressSpeed(window) ==
    IF progress_speed_raises(data, window)
    THEN Raised("progress_speed", [window |-> window])
    ELSE Returned("progress_speed", [window |-> window], progress_speed(data, window))

\* set_goal that never looks for an existing goal: it appends every time
set_goal_always_appends(target_percent, label, w) ==
    LET active_id ==
            IF data.active_goal_id = PyNone /\ data.goals # <<>>
            THEN data.goals[1].id
            ELSE IF data.active_goal_id # PyNone /\ data.active_goal_id[1] # 0
                 THEN data.active_goal_id[1]
                 ELSE _next_goal_id(data)
        goals == Append(data.goals, [id |-> active_id,
                                     target |-> ToFloat(target_percent),
                                     label |-> label])
    IN /\ Len(data.goals) < MaxGoals
       /\ active_id <= MaxGoalId
       /\ Saved("set_goal", [target_percent |-> target_percent, label |-> label],
                Some(active_id),
                [data EXCEPT !.goals = goals, !.active_goal_id = Some(active_id)], w)

\* StatsManager.set_goal
set_goal(target_percent, label, w) ==
    LET active_id ==
            IF data.active_goal_id = PyNone /\ data.goals # <<>>
            THEN data.goals[1].id
            ELSE IF data.active_goal_id # PyNone /\ data.active_goal_id[1] # 0
                 THEN data.active_goal_id[1]
                 ELSE _next_goal_id(data)
        existing == GoalIndex(data, active_id)
        goals == IF existing # 0
                 THEN [data.goals EXCEPT ![existing].target = ToFloat(target_percent),
                                         ![existing].label = label]
                 ELSE Append(data.goals, [id |-> active_id,
                                          target |-> ToFloat(target_percent),
                                          label |-> label])
    IN /\ existing = 0 => (Len(data.goals) < MaxGoals /\ active_id <= MaxGoalId)
       /\ Saved("set_goal", [target_percent |-> target_percent, label |-> label],
                Some(active_id),
                [data EXCEPT !.goals = goals, !.active_goal_id = Some(active_id)], w)

\* add_goal that returns before save(): the goal stays in memory only
add_goal_without_save(target_percent, label, w) ==
    LET goal_id == _next_goal_id(data)
        goals == Append(data.goals, [id |-> goal_id, target |-> ToFloat(target_percent),
                                     label |-> label])
    IN /\ Len(data.goals) < MaxGoals
       /\ goal_id <= MaxGoalId
       /\ Constructed
       /\ CanWrite(w)
       /\ data' = [data EXCEPT !.goals = goals,
                               !.active_goal_id = IF @ = PyNone THEN Some(goal_id) ELSE @]
       /\ lastOp' = [name |-> "add_goal",
                     args |-> [target_percent |-> target_percent, label |-> label],
                     ret |-> Some(goal_id), ok |-> (w = "ok")]
       /\ pre' = [data |-> data, disk |-> disk, failures |-> failures]
       /\ failures' = IF w = "ok" THEN failures ELSE failures + 1
       /\ UNCHANGED disk

\* StatsManager.add_goal
add_goal(target_percent, label, w) ==
    LET goal_id == _next_goal_id(data)
        goals == Append(data.goals, [id |-> goal_id, target |-> ToFloat(target_percent),
                                     label |-> label])
    IN /\ Len(data.goals) < MaxGoals
       /\ goal_id <= MaxGoalId
       /\ Saved("add_goal", [target_percent |-> target_percent, label |-> label],
                Some(goal_id),
                [data EXCEPT !.goals = goals,
                             !.active_goal_id = IF @ = PyNone THEN Some(goal_id) ELSE @], w)

\* update_goal that also makes the updated goal the active one
update_goal_activates(goal_id, target_percent, label, w) ==
    LET goal == GoalIndex(data, goal_id)
        args == [goal_id |-> goal_id, target_percent |-> target_percent, label |-> label]
    IN IF goal = 0
       THEN w = "ok" /\ Returned("update_goal", args, PyNone)
       ELSE Saved("update_goal", args, PyNone,
                  [data EXCEPT !.goals[goal].target = ToFloat(target_percent),
                               !.goals[goal].label = label,
                               !.active_goal_id = Some(goal_id)], w)

\* StatsManager.update_goal
update_goal(goal_id, target_percent, label, w) ==
    LET goal == GoalIndex(data, goal_id)
        args == [goal_id |-> goal_id, target_percent |-> target_percent, label |-> label]
    IN IF goal = 0
       THEN w = "ok" /\ Returned("update_goal", args, PyNone)
       ELSE Saved("update_goal", args, PyNone,
                  [data EXCEPT !.goals[goal].target = ToFloat(target_percent),
                               !.goals[goal].label = label], w)

\* delete_goal that moves the pointer to the last goal left, not the first
delete_goal_picks_last(goal_id, w) ==
    LET goals == FilterGoals(data.goals, goal_id)
        active == IF data.active_goal_id = Some(goal_id)
                  THEN (IF goals # <<>> THEN Some(goals[Len(goals)].id) ELSE PyNone)
                  ELSE data.active_goal_id
    IN Saved("delete_goal", [goal_id |-> goal_id], PyNone,
             [data EXCEPT !.goals = goals, !.active_goal_id = active], w)

\* StatsManager.delete_goal
delete_goal(goal_id, w) ==
    LET goals == FilterGoals(data.goals, goal_id)
        active == IF data.active_goal_id = Some(goal_id)
                  THEN (IF goals # <<>> THEN Some(goals[1].id) ELSE PyNone)
                  ELSE data.active_goal_id
    IN Saved("delete_goal", [goal_id |-> goal_id], PyNone,
             [data EXCEPT !.goals = goals, !.active_goal_id = active], w)

\* set_active_goal that stores the id without looking for its goal
set_active_goal_unchecked(goal_id, w) ==
    Saved("set_active_goal", [goal_id |-> goal_id], PyNone,
          [data EXCEPT !.active_goal_id = goal_id], w)

\* StatsManager.set_active_goal: goal_id is PyNone or Some(id)
set_active_goal(goal_id, w) ==
    LET active == IF goal_id = PyNone THEN PyNone
                  ELSE IF \E i \in DOMAIN data.goals : data.goals[i].id = goal_id[1]
                       THEN goal_id
                       ELSE data.active_goal_id
    IN Saved("set_active_goal", [goal_id |-> goal_id], PyNone,
             [data EXCEPT !.active_goal_id = active], w)

\* show_stats_window.save_goal: the "save" (is_new = FALSE) and "create"
\* (is_new = TRUE) buttons of the stats window.  text is the content of the
\* target entry, selected what current_goal_id() returns: PyNone when the
\* menu shows "new", the id of the goal it shows otherwise.  The value
\* returned is the text the feedback label shows afterwards.
save_goal(text, label, is_new, selected, w) ==
    LET target == float_of_text(text)
        args == [text |-> text, label |-> label, is_new |-> is_new, selected |-> selected]
        new_id == _next_goal_id(data)
        added == Append(data.goals, [id |-> new_id, target |-> ToFloat(target[1]),
                                     label |-> label])
        goal == GoalIndex(data, selected[1])
    IN IF target = PyNone
       THEN w = "ok" /\ Returned("save_goal", args, Some(FeedbackInvalid))
       ELSE IF is_new \/ selected = PyNone
       THEN /\ Len(data.goals) < MaxGoals
            /\ new_id <= MaxGoalId
            /\ Saved("save_goal", args, Some(FeedbackCreated),
                     [data EXCEPT !.goals = added,
                                  !.active_goal_id = IF @ = PyNone THEN Some(new_id) ELSE @],
                     w)
       ELSE IF goal = 0
       THEN w = "ok" /\ Returned("save_goal", args, Some(FeedbackUpdated))
       ELSE Saved("save_goal", args, Some(FeedbackUpdated),
                  [data EXCEPT !.goals[goal].target = ToFloat(target[1]),
                               !.goals[goal].label = label], w)

\* what the goal menu of the stats window can show: "new" or a stored goal
Selections(d) == {PyNone} \cup {Some(d.goals[i].id) : i \in DOMAIN d.goals}

\* the clicks on the two buttons the model makes: "create" with a number,
\* "save" with a number and with a text that is none
SaveGoalInputs ==
    {[text |-> <<"8", "0">>, is_new |-> TRUE], [text |-> <<"8", "0">>, is_new |-> FALSE],
     [text |-> <<"a", "b", "c">>, is_new |-> FALSE]}

OptGoalIds == {PyNone} \cup {Some(i) : i \in GoalIds}

\* Every write of the progress file succeeds.
Next ==
    \/ Restart /\ UNCHANGED <<issued, ui>>
    \/ \E r \in RecordInputs :
          record_attempt(r.question, r.correct, r.source, r.timestamp, "ok") /\ UNCHANGED <<issued, ui>>
    \/ \E i \in MovingInputs : MovingSuccess(i.window, i.theme) /\ UNCHANGED <<issued, ui>>
    \/ \E g \in OptGoalIds : GetGoal(g) /\ UNCHANGED <<issued, ui>>
    \/ \E i \in GoalInputs : set_goal(i.target_percent, i.label, "ok") /\ UNCHANGED <<issued, ui>>
    \/ \E i \in GoalInputs : add_goal(i.target_percent, i.label, "ok") /\ UNCHANGED <<issued, ui>>
    \/ \E g \in GoalIds, i \in GoalInputs :
          update_goal(g, i.target_percent, i.label, "ok") /\ UNCHANGED <<issued, ui>>
    \/ \E g \in GoalIds : delete_goal(g, "ok") /\ UNCHANGED <<issued, ui>>
    \/ \E g \in OptGoalIds : set_active_goal(g, "ok") /\ UNCHANGED <<issued, ui>>
    \/ \E i \in SaveGoalInputs, sel \in Selections(data) :
          save_goal(i.text, "m", i.is_new, sel, "ok") /\ UNCHANGED <<issued, ui>>

Spec == Init /\ [][Next]_vars

\* Writes of the progress file may fail.  The application starts on no file
\* or on one that is not JSON, and the store is kept small.
InitIO == Init /\ disk \in {FileMissing, FileCorrupt}

SmallStore(d) == Len(d.goals) <= MaxIOGoals /\ Len(d.attempts) <= MaxIOAttempts

NextIO ==
    \/ Restart /\ UNCHANGED <<issued, ui>>
    \/ \E r \in RecordInputs, w \in WriteOutcomes :
          /\ record_attempt(r.question, r.correct, r.source, r.timestamp, w)
          /\ SmallStore(data') /\ UNCHANGED <<issued, ui>>
    \/ \E i \in MovingInputs : MovingSuccess(i.window, i.theme) /\ UNCHANGED <<issued, ui>>
    \/ \E g \in OptGoalIds : GetGoal(g) /\ UNCHANGED <<issued, ui>>
    \/ \E i \in GoalInputs, w \in WriteOutcomes :
          set_goal(i.target_percent, i.label, w) /\ SmallStore(data') /\ UNCHANGED <<issued, ui>>
    \/ \E i \in GoalInputs, w \in WriteOutcomes :
          add_goal(i.target_percent, i.label, w) /\ SmallStore(data') /\ UNCHANGED <<issued, ui>>
    \/ \E g \in GoalIds, i \in GoalInputs, w \in WriteOutcomes :
          update_goal(g, i.target_percent, i.label, w) /\ UNCHANGED <<issued, ui>>
    \/ \E g \in GoalIds, w \in WriteOutcomes : delete_goal(g, w) /\ UNCHANGED <<issued, ui>>
    \/ \E g \in OptGoalIds, w \in WriteOutcomes : set_active_goal(g, w) /\ UNCHANGED <<issued, ui>>

SpecIO == InitIO /\ [][NextIO]_vars

\* Sequences of add_goal and delete_goal calls on one store, with the ids
\* add_goal returned remembered in call order.
NextIds ==
    \/ \E i \in GoalInputs :
          /\ Len(issued) < MaxIssued
          /\ add_goal(i.target_percent, i.label, "ok")
          /\ issued' = Append(issued, lastOp'.ret[1])
          /\ UNCHANGED ui
    \/ \E g \in GoalIds : delete_goal(g, "ok") /\ UNCHANGED <<issued, ui>>

SpecIds == Init /\ [][NextIds]_vars

\* The goal operations on a store that starts empty (no progress file).
InitEmpty == Init /\ disk = FileMissing

\* two (target_percent, label) arguments, so that an update changes a goal
TwoGoalInputs == GoalInputs \cup {[target_percent |-> PyFloat(65), label |-> "f"]}

NextGoals ==
    \/ \E i \in TwoGoalInputs : add_goal(i.target_percent, i.label, "ok") /\ UNCHANGED <<issued, ui>>
    \/ \E i \in TwoGoalInputs : set_goal(i.target_percent, i.label, "ok") /\ UNCHANGED <<issued, ui>>
    \/ \E g \in GoalIds, i \in TwoGoalInputs :
          update_goal(g, i.target_percent, i.label, "ok") /\ UNCHANGED <<issued, ui>>
    \/ \E g \in GoalIds : delete_goal(g, "ok") /\ UNCHANGED <<issued, ui>>
    \/ \E g \in OptGoalIds : set_active_goal(g, "ok") /\ UNCHANGED <<issued, ui>>

SpecGoals == InitEmpty /\ [][NextGoals]_vars

\* The statistics of an attempt log.  The log is the one of a progress file,
\* whose attempts need not come from record_attempt: an attempt may lack its
\* theme, and timestamps need not follow the order of the list.
StatsAttempts ==
    {[question_id |-> 1, category |-> "TF", source |-> "practice", theme |-> th,
      correct |-> c, ts |-> t] : th \in {"Flexion", "Tous"}, c \in BOOLEAN, t \in {10, 20}}
    \cup {[question_id |-> 1, category |-> "TF", source |-> "practice",
           correct |-> c, ts |-> t] : c \in BOOLEAN, t \in {10, 20}}

\* seven correct attempts followed by three incorrect ones
ExampleLog ==
    [i \in 1 .. 10 |->
        [question_id |-> i, category |-> "TF", source |-> "practice", theme |-> "Flexion",
         correct |-> (i <= 7), ts |-> Now]]

StatsLogs == UNION {[1 .. n -> StatsAttempts] : n \in 0 .. MaxLog} \cup {ExampleLog}
StatsWindows == 0 .. MaxWindow
ThemeArgs == {PyNone, Some("Tous"), Some("Flexion"), Some("Unknown")}

InitStats ==
    /\ disk \in {FileOf(json_dump([attempts |-> log])) : log \in StatsLogs}
    /\ data = load(DefaultData, disk)
    /\ lastOp = [name |-> "__init__", args |-> <<>>, ret |-> PyNone, ok |-> TRUE]
    /\ pre = [data |-> DefaultData, disk |-> disk, failures |-> 0]
    /\ failures = 0
    /\ issued = <<>>
    /\ UiIdle

\* The statistics leave the store as it is, so each call is made on the
\* store as it was loaded.
FreshlyLoaded == lastOp.name = "__init__"

NextStats ==
    \/ \E th \in ThemeArgs : FreshlyLoaded /\ ComputeOverall(th) /\ UNCHANGED <<issued, ui>>
    \/ \E th \in ThemeArgs : FreshlyLoaded /\ ThemeBreakdown(th) /\ UNCHANGED <<issued, ui>>
    \/ \E win \in StatsWindows : FreshlyLoaded /\ ProgressSpeed(win) /\ UNCHANGED <<issued, ui>>
    \/ \E win \in StatsWindows, th \in ThemeArgs :
          FreshlyLoaded /\ MovingSuccess(win, th) /\ UNCHANGED <<issued, ui>>

SpecStats == InitStats /\ [][NextStats]_vars

\* ---------------------------------------------------- the quiz window
\* The texts of the two windows (themes, choices, entry fields) are
\* sequences of characters.
Flexion == <<"F">>
Torsion == <<"T">>

\* Answers keep their Python type: a bool for a TF question, a str for a QCM.
PyBool(b) == [k |-> "bool", b |-> b]
PyStr(s) == [k |-> "str", s |-> s]

\* The dicts of the bank file and the Question dataclass have the same
\* fields; the explanation text plays no part in what is modelled.
TFQuestion(i, th, ans) ==
    [id |-> i, category |-> "TF", thematic |-> th, question |-> <<"q">>,
     choices |-> PyNone, answer |-> PyBool(ans)]
QCMQuestion(i, th, choices, ans) ==
    [id |-> i, category |-> "QCM", thematic |-> th, question |-> <<"q">>,
     choices |-> Some(choices), answer |-> PyStr(ans)]

\* a bank with just enough questions for an exam: three TF and three QCM,
\* the theme Flexion holding one of each
QuizBank ==
    <<TFQuestion(1, Flexion, TRUE), TFQuestion(2, Torsion, FALSE),
      TFQuestion(3, Torsion, TRUE),
      QCMQuestion(5, Flexion, <<<<"a">>, <<"b">>>>, <<"b">>),
      QCMQuestion(6, Torsion, <<<<"a">>, <<"b">>>>, <<"a">>),
      QCMQuestion(7, Torsion, <<<<"a">>, <<"b">>>>, <<"b">>)>>

\* the bank file: absent, not loadable, or a JSON object with "questions"
BankFileOf(questions) == [kind |-> "json", questions |-> questions]

\* QuizApp.load_questions: the Question list built from the dicts of the
\* file, each Question taking the fields it needs from its dict
load_questions(file) ==
    [i \in DOMAIN file.questions |->
        LET item == file.questions[i]
        IN [id |-> item.id, category |-> item.category,
            thematic |-> item.thematic, question |-> item.question,
            choices |-> item.choices, answer |-> item.answer]]

Themes(questions) == {questions[i].thematic : i \in DOMAIN questions}
OfTheme(questions, theme) ==
    LET same(q) == q.thematic = theme IN SelectSeq(questions, same)
OfCategory(questions, cat) ==
    LET same(q) == q.category = cat IN SelectSeq(questions, same)

\* random.shuffle: of the orders it can produce the model takes two, the
\* list as it is and the list reversed
ShuffleOrders == {"same", "reversed"}
shuffle(s, order) ==
    IF order = "same" THEN s ELSE [i \in 1 .. Len(s) |-> s[Len(s) + 1 - i]]

\* the elements of s at the positions in I, in the order of s
Pick(s, I) ==
    LET F[i \in 0 .. Len(s)] ==
            IF i = 0 THEN <<>>
            ELSE IF i \in I THEN Append(F[i - 1], s[i]) ELSE F[i - 1]
    IN F[Len(s)]

\* random.sample(s, 3)
Samples(s) == {Pick(s, I) : I \in {J \in SUBSET DOMAIN s : Cardinality(J) = 3}}

\* q.choices or []
ChoicesOf(q) == IF q.choices = PyNone THEN <<>> ELSE q.choices[1]

\* QuizApp.show_question when it does not end an exam: past the last
\* question of a thematic session the list is shuffled again and the index
\* goes back to 0; the question is displayed with Submit enabled, Next not
show_question(qz, order) ==
    IF qz.filtered_questions = <<>> THEN qz
    ELSE LET wrapped == qz.current_index >= Len(qz.filtered_questions)
             q1 == IF wrapped
                   THEN [qz EXCEPT !.filtered_questions = shuffle(@, order),
                                   !.current_index = 0]
                   ELSE qz
         IN [q1 EXCEPT !.submit_btn = "normal", !.next_btn = "disabled"]

\* start_theme without its first assignment: exam mode is left as it was
start_theme_keeps_exam_mode(qz, theme, order) ==
    LET filtered == OfTheme(qz.questions, theme)
        q1 == [qz EXCEPT !.timer_running = FALSE,
                         !.current_theme = Some(theme),
                         !.exam_user_answers = <<>>,
                         !.filtered_questions = filtered]
    IN IF filtered = <<>> THEN q1
       ELSE show_question([q1 EXCEPT !.filtered_questions = shuffle(filtered, order),
                                     !.current_index = 0, !.score = 0, !.total = 0],
                          order)

\* QuizApp.start_theme
start_theme(qz, theme, order) ==
    LET filtered == OfTheme(qz.questions, theme)
        q1 == [qz EXCEPT !.exam_mode = FALSE, !.timer_running = FALSE,
                         !.current_theme = Some(theme),
                         !.exam_user_answers = <<>>,
                         !.filtered_questions = filtered]
    IN IF filtered = <<>> THEN q1
       ELSE show_question([q1 EXCEPT !.filtered_questions = shuffle(filtered, order),
                                     !.current_index = 0, !.score = 0, !.total = 0],
                          order)

\* the state a click on a button of the quiz window starts from
UiCall == prev' = [quiz |-> quiz, watch |-> watch, bank |-> bank, editor |-> editor]

\* on_start_theme writing the questions of the session to the bank file
on_start_theme_saves_bank(selection, order) ==
    /\ IF selection = PyNone THEN order = "same"
       ELSE selection[1] \in Themes(quiz.questions)
    /\ quiz' = IF selection = PyNone THEN quiz
               ELSE start_theme(quiz, selection[1], order)
    /\ bank' = BankFileOf(quiz'.filtered_questions)
    /\ Returned("on_start_theme", [selection |-> selection], PyNone)
    /\ UiCall
    /\ UNCHANGED <<watch, editor, issued>>

\* QuizApp.on_start_theme: selection is the theme picked in the list box,
\* if any
on_start_theme(selection, order) ==
    /\ IF selection = PyNone THEN order = "same"
       ELSE selection[1] \in Themes(quiz.questions)
    /\ quiz' = IF selection = PyNone THEN quiz
               ELSE start_theme(quiz, selection[1], order)
    /\ Returned("on_start_theme", [selection |-> selection], PyNone)
    /\ UiCall
    /\ UNCHANGED <<watch, bank, editor, issued>>

\* QuizApp.start_exam_mode: tf and qcm are the two random samples
start_exam_mode(tf, qcm, order) ==
    LET tf_questions == OfCategory(quiz.questions, "TF")
        qcm_questions == OfCategory(quiz.questions, "QCM")
        enough == Len(tf_questions) >= 3 /\ Len(qcm_questions) >= 3
        selected == shuffle(tf \o qcm, order)
    IN /\ Len(data.attempts) <= MaxExamStart
       /\ IF enough
          THEN /\ tf \in Samples(tf_questions)
               /\ qcm \in Samples(qcm_questions)
               /\ quiz' = show_question(
                     [quiz EXCEPT !.exam_mode = TRUE,
                                  !.exam_user_answers = [i \in 1 .. Len(selected) |-> PyNone],
                                  !.filtered_questions = selected,
                                  !.current_theme = PyNone,
                                  !.score = 0, !.total = 0, !.current_index = 0,
                                  !.timer_running = TRUE], order)
          ELSE /\ tf = <<>> /\ qcm = <<>>
               /\ quiz' = quiz
       /\ Returned("start_exam_mode", [tf |-> tf, qcm |-> qcm], PyNone)
       /\ UiCall
       /\ UNCHANGED <<watch, bank, editor, issued>>

\* StatsManager.record_attempt on the dict d, up to the assignment of
\* save(): the attempt is appended and the "goal" mirror refreshed
record_attempt_data(d, question, correct, source) ==
    save_mirror([d EXCEPT !.attempts =
        Append(@, [question_id |-> question.id, theme |-> question.thematic,
                   category |-> question.category, correct |-> correct,
                   source |-> source, ts |-> Now])])

\* How the writes of one handler go: all succeed (at = 0), or the at-th
\* write of the handler fails in the given way.
AllOk == [at |-> 0, kind |-> "ok"]
WritePlans(n) ==
    {AllOk} \cup {[at |-> k, kind |-> w] : k \in 1 .. n, w \in WriteOutcomes \ {"ok"}}
WriteAt(ws, k) == IF ws.at = k THEN ws.kind ELSE "ok"

\* is_correct as finish_exam computes it from the stored answer
exam_is_correct(q, user_answer) ==
    /\ user_answer # PyNone
    /\ user_answer[1] = (IF q.category = "TF" THEN PyBool(q.answer.b) ELSE q.answer)

\* the loop of finish_exam recording only the questions answered correctly
RECURSIVE finish_exam_loop_skips_wrong(_, _, _, _, _)
finish_exam_loop_skips_wrong(qz, idx, st, ws, correct_count) ==
    IF idx > Len(qz.filtered_questions)
    THEN [data |-> st.data, disk |-> st.disk, correct_count |-> correct_count,
          ok |-> TRUE]
    ELSE LET q == qz.filtered_questions[idx]
             is_correct == exam_is_correct(q, qz.exam_user_answers[idx])
             d == IF is_correct THEN record_attempt_data(st.data, q, TRUE, "exam")
                  ELSE st.data
             w == WriteAt(ws, idx)
             st1 == [data |-> d, disk |-> save_file(d, st.disk, w)]
         IN IF w = "ok"
            THEN finish_exam_loop_skips_wrong(qz, idx + 1, st1, ws,
                                  correct_count + (IF is_correct THEN 1 ELSE 0))
            ELSE [data |-> st1.data, disk |-> st1.disk,
                  correct_count |-> correct_count, ok |-> FALSE]

\* The loop of finish_exam from its idx-th question on: each round records
\* one attempt; when a write fails the exception leaves the loop.
RECURSIVE finish_exam_loop(_, _, _, _, _)
finish_exam_loop(qz, idx, st, ws, correct_count) ==
    IF idx > Len(qz.filtered_questions)
    THEN [data |-> st.data, disk |-> st.disk, correct_count |-> correct_count,
          ok |-> TRUE]
    ELSE LET q == qz.filtered_questions[idx]
             is_correct == exam_is_correct(q, qz.exam_user_answers[idx])
             d == record_attempt_data(st.data, q, is_correct, "exam")
             w == WriteAt(ws, idx)
             st1 == [data |-> d, disk |-> save_file(d, st.disk, w)]
         IN IF w = "ok"
            THEN finish_exam_loop(qz, idx + 1, st1, ws,
                                  correct_count + (IF is_correct THEN 1 ELSE 0))
            ELSE [data |-> st1.data, disk |-> st1.disk,
                  correct_count |-> correct_count, ok |-> FALSE]

\* finish_exam with its last assignments in a finally block: the exam ends
\* also when a write failed
finish_exam_always_ends(qz, st, ws) ==
    IF ~qz.exam_mode
    THEN [quiz |-> qz, data |-> st.data, disk |-> st.disk, ok |-> TRUE]
    ELSE LET r == finish_exam_loop(qz, 1, st, ws, 0)
         IN [quiz |-> [qz EXCEPT !.timer_running = FALSE,
                                 !.score = r.correct_count,
                                 !.total = Len(qz.filtered_questions),
                                 !.exam_mode = FALSE,
                                 !.submit_btn = "disabled",
                                 !.next_btn = "disabled"],
             data |-> r.data, disk |-> r.disk, ok |-> r.ok]

\* QuizApp.finish_exam on the window state qz and the store st: nothing
\* outside exam mode; otherwise the loop, and after a loop that completed
\* the score, the end of exam mode and both buttons disabled.  When a write
\* fails the exception leaves the handler after stop_timer() and the rounds
\* made so far.
finish_exam(qz, st, ws) ==
    IF ~qz.exam_mode
    THEN [quiz |-> qz, data |-> st.data, disk |-> st.disk, ok |-> TRUE]
    ELSE LET r == finish_exam_loop(qz, 1, st, ws, 0)
             stopped == [qz EXCEPT !.timer_running = FALSE]
         IN [quiz |-> IF r.ok
                      THEN [stopped EXCEPT !.score = r.correct_count,
                                           !.total = Len(qz.filtered_questions),
                                           !.exam_mode = FALSE,
                                           !.submit_btn = "disabled",
                                           !.next_btn = "disabled"]
                      ELSE stopped,
             data |-> r.data, disk |-> r.disk, ok |-> r.ok]

\* what a handler of the quiz window leaves in the store and in the record
\* of the last call
Handled(name, args, r, ws) ==
    /\ Constructed
    /\ ws.at # 0 => failures < MaxWriteFailures
    /\ quiz' = r.quiz
    /\ data' = r.data
    /\ disk' = r.disk
    /\ failures' = IF r.ok THEN failures ELSE failures + 1
    /\ lastOp' = [name |-> name, args |-> args, ret |-> PyNone, ok |-> r.ok]
    /\ pre' = [data |-> data, disk |-> disk, failures |-> failures]
    /\ UiCall
    /\ UNCHANGED <<watch, bank, editor, issued>>

\* on_submit counting every submitted answer as correct
practice_always_correct(q, selection) == TRUE

\* is_correct as on_submit computes it in a thematic session
practice_is_correct(q, selection) ==
    LET \* choices.index(correct_str), -1 when the ValueError is caught
        IndexOf(choices, s) ==
            IF \E i \in DOMAIN choices : choices[i] = s
            THEN (CHOOSE i \in DOMAIN choices :
                     choices[i] = s /\ \A j \in 1 .. i - 1 : choices[j] # s) - 1
            ELSE -1
    IN
        IF q.category = "TF" THEN (selection = 0) = q.answer.b
        ELSE selection = IndexOf(ChoicesOf(q), q.answer.s)

\* QuizApp.on_submit, the command of the Submit button
on_submit(selection, ws) ==
    LET \* the values selected_var can hold when Submit is clicked: -1 (no radio
        \* button chosen) or the index of a radio button of the question shown
        Selections_of(question) ==
            {-1} \cup (IF question.category = "TF" THEN {0, 1}
                       ELSE 0 .. Len(ChoicesOf(question)) - 1)
        \* the answer on_submit stores in exam mode
        exam_user_answer(question, picked) ==
            IF question.category = "TF" THEN PyBool(picked = 0)
            ELSE IF 0 <= picked /\ picked < Len(ChoicesOf(question))
                 THEN PyStr(ChoicesOf(question)[picked + 1])
                 ELSE PyStr(<<>>)
    IN
        LET q == quiz.filtered_questions[quiz.current_index + 1]
            st == [data |-> data, disk |-> disk]
            same == [quiz |-> quiz, data |-> data, disk |-> disk, ok |-> TRUE]
            counted == [quiz EXCEPT !.total = @ + 1]
            last == quiz.current_index = Len(quiz.filtered_questions) - 1
            stored == [counted EXCEPT
                          !.exam_user_answers[quiz.current_index + 1] =
                              Some(exam_user_answer(q, selection)),
                          !.submit_btn = "disabled"]
            is_correct == practice_is_correct(q, selection)
            d == record_attempt_data(data, q, is_correct, "practice")
            w == WriteAt(ws, 1)
            args == [selection |-> selection]
        IN /\ quiz.submit_btn = "normal"
           /\ IF quiz.filtered_questions = <<>>
              THEN selection = -1 /\ Handled("on_submit", args, same, AllOk) /\ ws = AllOk
              ELSE /\ selection \in Selections_of(q)
                   /\ IF selection < 0
                      THEN Handled("on_submit", args, same, AllOk) /\ ws = AllOk
                      ELSE IF quiz.exam_mode
                      THEN IF last
                           THEN /\ ws \in WritePlans(Len(quiz.filtered_questions))
                                /\ Handled("on_submit", args, finish_exam(stored, st, ws), ws)
                           ELSE /\ ws = AllOk
                                /\ Handled("on_submit", args,
                                           [same EXCEPT !.quiz =
                                               [stored EXCEPT !.next_btn = "normal"]], ws)
                      ELSE /\ ws \in WritePlans(1)
                           /\ Len(data.attempts) < MaxPracticeLog
                           /\ Handled("on_submit", args,
                                 [quiz |-> [counted EXCEPT
                                               !.score = IF is_correct THEN @ + 1 ELSE @,
                                               !.submit_btn = "disabled",
                                               !.next_btn = "normal"],
                                  data |-> d, disk |-> save_file(d, disk, w),
                                  ok |-> (w = "ok")], ws)

\* QuizApp.on_next, the command of the Next button
on_next(order, ws) ==
    LET st == [data |-> data, disk |-> disk]
        same == [quiz |-> quiz, data |-> data, disk |-> disk, ok |-> TRUE]
        moved == [quiz EXCEPT !.current_index = @ + 1]
        args == [order |-> order]
    IN /\ quiz.next_btn = "normal"
       /\ moved.current_index < Len(moved.filtered_questions) => order = "same"
       /\ IF quiz.filtered_questions = <<>>
          THEN ws = AllOk /\ Handled("on_next", args, same, ws)
          ELSE IF moved.current_index >= Len(moved.filtered_questions) /\ moved.exam_mode
          THEN /\ ws \in WritePlans(Len(quiz.filtered_questions))
               /\ Handled("on_next", args, finish_exam(moved, st, ws), ws)
          ELSE /\ ws = AllOk
               /\ Handled("on_next", args,
                          [same EXCEPT !.quiz = show_question(moved, order)], ws)

\* The application started on the bank QuizBank with no progress file and
\* no editor: QuizApp.__init__ has built the StatsManager and loaded the
\* questions.
InitQuiz ==
    /\ disk = FileMissing
    /\ data = load(DefaultData, disk)
    /\ lastOp = [name |-> "__init__", args |-> <<>>, ret |-> PyNone, ok |-> TRUE]
    /\ pre = [data |-> DefaultData, disk |-> disk, failures |-> 0]
    /\ failures = 0
    /\ issued = <<>>
    /\ bank = BankFileOf(QuizBank)
    /\ quiz = [NoQuiz EXCEPT !.questions = load_questions(bank)]
    /\ watch = NoWatch
    /\ editor = NoEditor
    /\ prev = [quiz |-> NoQuiz, watch |-> watch, bank |-> bank, editor |-> editor]

\* the theme picked in the list box when "Start" is clicked, if any: of
\* the themes of the bank the model's user picks the one with two questions
ThemeSelections == {PyNone, Some(Flexion)}

\* The buttons of the quiz window, every write of the progress file
\* succeeding.
NextQuiz ==
    \/ \E sel \in ThemeSelections, order \in ShuffleOrders : on_start_theme(sel, order)
    \/ \E tf \in Samples(OfCategory(quiz.questions, "TF")),
          qcm \in Samples(OfCategory(quiz.questions, "QCM")),
          order \in ShuffleOrders : start_exam_mode(tf, qcm, order)
    \/ \E selection \in -1 .. 1 : on_submit(selection, AllOk)
    \/ \E order \in ShuffleOrders : on_next(order, AllOk)

SpecQuiz == InitQuiz /\ [][NextQuiz]_vars

\* The buttons of the quiz window when writes of the progress file may fail.
\* The model's user picks the first radio button or none.
NextQuizIO ==
    \/ \E sel \in ThemeSelections, order \in ShuffleOrders : on_start_theme(sel, order)
    \/ \E tf \in Samples(OfCategory(quiz.questions, "TF")),
          qcm \in Samples(OfCategory(quiz.questions, "QCM")),
          order \in ShuffleOrders : start_exam_mode(tf, qcm, order)
    \/ \E selection \in -1 .. 0, ws \in WritePlans(6) : on_submit(selection, ws)
    \/ \E order \in ShuffleOrders, ws \in WritePlans(6) : on_next(order, ws)
    \/ \E w \in WriteOutcomes : set_active_goal(PyNone, w) /\ UNCHANGED <<issued, ui>>

SpecQuizIO == InitQuiz /\ [][NextQuizIO]_vars

\* ------------------------------------------------- the editor window
\* The text of an entry field is a sequence of characters, so that strip()
\* has something to remove.
RECURSIVE lstrip(_)
lstrip(t) == IF t # <<>> /\ Head(t) = " " THEN lstrip(Tail(t)) ELSE t
RECURSIVE rstrip(_)
rstrip(t) ==
    IF t # <<>> /\ t[Len(t)] = " " THEN rstrip(SubSeq(t, 1, Len(t) - 1)) ELSE t
\* str.strip()
strip(t) == rstrip(lstrip(t))

\* [c.get().strip() for c in self.choice_entries if c.get().strip()]
RECURSIVE stripped_choices(_)
stripped_choices(entries) ==
    IF entries = <<>> THEN <<>>
    ELSE IF strip(Head(entries)) # <<>>
         THEN <<strip(Head(entries))>> \o stripped_choices(Tail(entries))
         ELSE stripped_choices(Tail(entries))

\* int(q.get("id", 0)) of the questions
QuestionIds(questions) == {questions[i].id : i \in DOMAIN questions}

\* _next_id numbering by the length of the list
_next_id_by_count(questions) == Len(questions) + 1

\* QuestionEditor._next_id
_next_id(questions) ==
    IF questions = <<>> THEN 1 ELSE SeqMax(QuestionIds(questions)) + 1

\* QuestionEditor._load_existing_questions
_load_existing_questions(file) ==
    IF file.kind = "missing" THEN <<>> ELSE file.questions

\* QuestionEditor._write_questions: the file becomes the editor's list
_write_questions(questions) == BankFileOf(questions)

\* a call of the editor window: the store and the quiz window are not
\* involved
EditorCall(name, args, ret) ==
    /\ editor.open
    /\ Returned(name, args, ret)
    /\ UiCall
    /\ UNCHANGED <<quiz, watch, issued>>

\* QuestionEditor._on_select_from_list: qid is the id of the row clicked
_on_select_from_list(qid) ==
    /\ qid \in QuestionIds(editor.questions)
    /\ editor' = [editor EXCEPT !.selected_question_id = Some(qid)]
    /\ UNCHANGED bank
    /\ EditorCall("_on_select_from_list", [qid |-> qid], PyNone)

\* QuestionEditor._reset_form, the command of the "new question" button
_reset_form ==
    /\ editor' = [editor EXCEPT !.selected_question_id = PyNone]
    /\ UNCHANGED bank
    /\ EditorCall("_reset_form", <<>>, PyNone)

\* [q for q in self.questions if int(q.get("id", 0)) != target_id]
RECURSIVE WithoutId(_, _)
WithoutId(questions, target_id) ==
    IF questions = <<>> THEN <<>>
    ELSE IF Head(questions).id # target_id
         THEN <<Head(questions)>> \o WithoutId(Tail(questions), target_id)
         ELSE WithoutId(Tail(questions), target_id)

\* QuestionEditor._delete_selected: the row selected in the list is the one
\* of selected_question_id; confirm is the answer to the yes/no dialog
_delete_selected(confirm) ==
    LET target_id == editor.selected_question_id
        args == [confirm |-> confirm]
    IN IF target_id = PyNone
       THEN /\ confirm = FALSE
            /\ UNCHANGED <<editor, bank>>
            /\ EditorCall("_delete_selected", args, Some("Selectionnez une question"))
       ELSE IF ~confirm
       THEN /\ UNCHANGED <<editor, bank>>
            /\ EditorCall("_delete_selected", args, PyNone)
       ELSE LET questions == WithoutId(editor.questions, target_id[1])
            IN /\ editor' = [editor EXCEPT !.questions = questions,
                                           !.selected_question_id = PyNone]
               /\ bank' = _write_questions(questions)
               /\ EditorCall("_delete_selected", args, Some("Suppression"))

\* the dict _on_save builds from the form
new_question(qid, form) ==
    IF form.category = "TF"
    THEN [id |-> qid, category |-> "TF", thematic |-> strip(form.thematic),
          question |-> strip(form.question), choices |-> PyNone,
          answer |-> PyBool(form.tf_answer), explication |-> <<>>]
    ELSE [id |-> qid, category |-> "QCM", thematic |-> strip(form.thematic),
          question |-> strip(form.question),
          choices |-> Some(stripped_choices(form.choice_entries)),
          answer |-> PyStr(form.qcm_answer), explication |-> <<>>]

\* the error dialog with which _on_save refuses the form, if it does
save_refusal(form) ==
    IF strip(form.thematic) = <<>> \/ strip(form.question) = <<>>
    THEN Some("Missing data")
    ELSE IF form.category = "TF" THEN PyNone
    ELSE IF Len(stripped_choices(form.choice_entries)) < 2
    THEN Some("Not enough choices")
    ELSE IF ~\E i \in DOMAIN stripped_choices(form.choice_entries) :
                stripped_choices(form.choice_entries)[i] = form.qcm_answer
    THEN Some("Invalid answer")
    ELSE PyNone

\* QuestionEditor._on_save, the command of the Save button
_on_save(form) ==
    LET \* the position of the first question with the id, 0 if there is none
        QuestionIndex(questions, qid) ==
            IF \E i \in DOMAIN questions : questions[i].id = qid
            THEN CHOOSE i \in DOMAIN questions :
                    questions[i].id = qid /\ \A j \in 1 .. i - 1 : questions[j].id # qid
            ELSE 0
    IN
        LET is_edit == editor.selected_question_id # PyNone
            qid == IF is_edit /\ editor.selected_question_id[1] # 0
                   THEN editor.selected_question_id[1]
                   ELSE _next_id(editor.questions)
            idx == QuestionIndex(editor.questions, qid)
            questions ==
                IF is_edit
                THEN IF idx # 0
                     THEN [editor.questions EXCEPT ![idx] = new_question(qid, form)]
                     ELSE editor.questions
                ELSE Append(editor.questions, new_question(qid, form))
            args == [form |-> form]
        IN IF save_refusal(form) # PyNone
           THEN /\ UNCHANGED <<editor, bank>>
                /\ EditorCall("_on_save", args, save_refusal(form))
           ELSE /\ ~is_edit => (Len(editor.questions) < MaxBank /\ qid <= MaxQuestionId)
                /\ editor' = [editor EXCEPT
                                 !.questions = questions,
                                 !.selected_question_id =
                                     IF is_edit THEN Some(qid) ELSE PyNone]
                /\ bank' = _write_questions(questions)
                /\ EditorCall("_on_save", args,
                              Some(IF is_edit THEN "Mis a jour" ELSE "Saved"))

\* The forms the model's user submits: a TF question whose thematic has a
\* leading blank, a form without thematic, and QCM forms whose choice
\* fields hold two choices with blanks around them, the same choice twice,
\* one choice only, and two choices with an answer that is neither.
EmptyEntries == <<<<>>, <<>>, <<>>>>
Forms ==
    {[category |-> "TF", thematic |-> <<" ", "T">>, question |-> <<"q">>,
      tf_answer |-> TRUE, choice_entries |-> EmptyEntries, qcm_answer |-> <<>>],
     [category |-> "TF", thematic |-> <<" ">>, question |-> <<"q">>,
      tf_answer |-> TRUE, choice_entries |-> EmptyEntries, qcm_answer |-> <<>>],
     [category |-> "QCM", thematic |-> <<"T">>, question |-> <<"q">>,
      tf_answer |-> TRUE, choice_entries |-> <<<<" ", "a">>, <<"b", " ">>, <<>>>>,
      qcm_answer |-> <<"b">>],
     [category |-> "QCM", thematic |-> <<"T">>, question |-> <<"q">>,
      tf_answer |-> TRUE, choice_entries |-> <<<<"a">>, <<"a">>, <<>>>>,
      qcm_answer |-> <<"a">>],
     [category |-> "QCM", thematic |-> <<"T">>, question |-> <<"q">>,
      tf_answer |-> TRUE, choice_entries |-> <<<<"a">>, <<" ">>, <<>>>>,
      qcm_answer |-> <<"a">>],
     [category |-> "QCM", thematic |-> <<"T">>, question |-> <<"q">>,
      tf_answer |-> TRUE, choice_entries |-> <<<<"a">>, <<"b">>, <<>>>>,
      qcm_answer |-> <<"c">>]}

\* a question of a bank file the editor starts on
BankQuestion(i) ==
    [id |-> i, category |-> "TF", thematic |-> <<"S">>, question |-> <<"q">>,
     choices |-> PyNone, answer |-> PyBool(FALSE), explication |-> <<>>]

\* QuestionEditor.__init__: the editor run on its own, no quiz window
InitEditor ==
    LET \* The bank files the editor starts on: none, one whose ids are not in
        \* list order, one with the id 0.  The ids of a file are pairwise distinct.
        InitialBanks ==
            {NoBank, BankFileOf(<<BankQuestion(2), BankQuestion(1)>>),
             BankFileOf(<<BankQuestion(0)>>)}
    IN
        /\ disk = FileMissing
        /\ data = load(DefaultData, disk)
        /\ lastOp = [name |-> "__init__", args |-> <<>>, ret |-> PyNone, ok |-> TRUE]
        /\ pre = [data |-> DefaultData, disk |-> disk, failures |-> 0]
        /\ failures = 0
        /\ issued = <<>>
        /\ quiz = NoQuiz
        /\ watch = NoWatch
        /\ bank \in InitialBanks
        /\ editor = [open |-> TRUE, questions |-> _load_existing_questions(bank),
                     selected_question_id |-> PyNone]
        /\ prev = [quiz |-> quiz, watch |-> watch, bank |-> bank, editor |-> NoEditor]

NextEditor ==
    \/ \E qid \in 0 .. MaxQuestionId : _on_select_from_list(qid)
    \/ _reset_form
    \/ \E confirm \in BOOLEAN : _delete_selected(confirm)
    \/ \E form \in Forms : _on_save(form)

SpecEditor == InitEditor /\ [][NextEditor]_vars

\* ------------------------------------- the quiz window and its editors
\* QuizApp.refresh_questions_from_file: the questions are loaded again and
\* the current theme is kept if the bank still has it
refresh_questions_from_file(qz, file) ==
    LET questions == load_questions(file)
    IN [qz EXCEPT !.questions = questions,
                  !.current_theme =
                      IF @ # PyNone /\ @[1] \in Themes(questions) THEN @ ELSE PyNone]

\* a callback of the quiz window that leaves the store and the session alone
WatchCall(name, args, ret) ==
    /\ Returned(name, args, ret)
    /\ UiCall
    /\ UNCHANGED <<editor, issued>>

\* QuizApp.open_question_editor: popen_ok tells whether Popen returned a
\* process or raised
open_question_editor(popen_ok) ==
    LET proc == watch.launched + 1
    IN /\ watch.launched < MaxEditors
       /\ watch' = IF popen_ok
                   THEN [watch EXCEPT !.editor_processes = Append(@, proc),
                                      !.timers = @ + 1,
                                      !.running = @ \cup {proc},
                                      !.launched = proc]
                   ELSE watch
       /\ UNCHANGED <<quiz, bank>>
       /\ WatchCall("open_question_editor", [popen_ok |-> popen_ok], PyNone)

\* an editor process ends: its window was closed
EditorExits(proc) ==
    /\ proc \in watch.running
    /\ watch' = [watch EXCEPT !.running = @ \ {proc}]
    /\ UNCHANGED <<quiz, bank>>
    /\ WatchCall("exit", [proc |-> proc], PyNone)

\* a running editor saves or deletes a question: _write_questions puts its
\* list in the bank file
EditorWrites(proc, questions) ==
    /\ proc \in watch.running
    /\ bank # _write_questions(questions)
    /\ bank' = _write_questions(questions)
    /\ UNCHANGED <<quiz, watch>>
    /\ WatchCall("_write_questions", [proc |-> proc], PyNone)

\* [proc for proc in self.editor_processes if proc.poll() is None]
StillAlive(procs, running) ==
    LET alive(p) == p \in running IN SelectSeq(procs, alive)

\* _watch_question_editor without its last statement: no new callback
_watch_question_editor_once ==
    LET alive == StillAlive(watch.editor_processes, watch.running)
        changed == alive # watch.editor_processes
    IN /\ watch.timers > 0
       /\ IF watch.editor_processes = <<>>
          THEN /\ watch' = [watch EXCEPT !.timers = @ - 1]
               /\ UNCHANGED quiz
               /\ WatchCall("_watch_question_editor", <<>>, PyNone)
          ELSE /\ watch' = [watch EXCEPT !.editor_processes = alive,
                                         !.timers = @ - 1]
               /\ quiz' = IF changed THEN refresh_questions_from_file(quiz, bank)
                          ELSE quiz
               /\ WatchCall("_watch_question_editor", <<>>,
                            IF changed THEN Some("reloaded") ELSE PyNone)
       /\ UNCHANGED bank

\* QuizApp._watch_question_editor, run when one of the after() callbacks
\* comes due
_watch_question_editor ==
    LET alive == StillAlive(watch.editor_processes, watch.running)
        changed == alive # watch.editor_processes
    IN /\ watch.timers > 0
       /\ IF watch.editor_processes = <<>>
          THEN /\ watch' = [watch EXCEPT !.timers = @ - 1]
               /\ UNCHANGED quiz
               /\ WatchCall("_watch_question_editor", <<>>, PyNone)
          ELSE /\ watch' = [watch EXCEPT !.editor_processes = alive,
                                         !.timers = IF alive # <<>> THEN @ ELSE @ - 1]
               /\ quiz' = IF changed THEN refresh_questions_from_file(quiz, bank)
                          ELSE quiz
               /\ WatchCall("_watch_question_editor", <<>>,
                            IF changed THEN Some("reloaded") ELSE PyNone)
       /\ UNCHANGED bank

\* The application started on the first of these banks.
InitWatch ==
    /\ disk = FileMissing
    /\ data = load(DefaultData, disk)
    /\ lastOp = [name |-> "__init__", args |-> <<>>, ret |-> PyNone, ok |-> TRUE]
    /\ pre = [data |-> DefaultData, disk |-> disk, failures |-> 0]
    /\ failures = 0
    /\ issued = <<>>
    /\ bank = BankFileOf(<<TFQuestion(1, Flexion, TRUE)>>)
    /\ quiz = [NoQuiz EXCEPT !.questions = load_questions(bank)]
    /\ watch = NoWatch
    /\ editor = NoEditor
    /\ prev = [quiz |-> NoQuiz, watch |-> watch, bank |-> bank, editor |-> editor]

NextWatch ==
    LET \* the banks an editor leaves: the one the application started on, with or
        \* without a question added
        WatchBanks ==
            {<<TFQuestion(1, Flexion, TRUE)>>,
             <<TFQuestion(1, Flexion, TRUE), TFQuestion(2, Torsion, FALSE)>>}
    IN
        \/ \E t \in Themes(quiz.questions) : on_start_theme(Some(t), "same")
        \/ \E popen_ok \in BOOLEAN : open_question_editor(popen_ok)
        \/ \E proc \in 1 .. MaxEditors : EditorExits(proc)
        \/ \E proc \in 1 .. MaxEditors, questions \in WatchBanks : EditorWrites(proc, questions)
        \/ _watch_question_editor

\* The event loop runs: a callback that is due is called.
SpecWatch == InitWatch /\ [][NextWatch]_vars /\ WF_vars(_watch_question_editor)

\* --------------------------- the quiz window and the editor it launches
\* The application run from its source directory: the editor's
\* mmc_questions.json is the file the quiz window loads.  One
\* editor is launched, and one answer is given outside an exam.

\* QuestionEditor.__init__ in the launched process proc
EditorStarts(proc) ==
    /\ proc \in watch.running
    /\ ~editor.open
    /\ editor' = [open |-> TRUE, questions |-> _load_existing_questions(bank),
                  selected_question_id |-> PyNone, proc |-> proc]
    /\ UNCHANGED <<quiz, watch, bank>>
    /\ Returned("QuestionEditor", [proc |-> proc], PyNone)
    /\ UiCall
    /\ UNCHANGED issued

\* the editor window is closed and its process ends
EditorCloses ==
    /\ editor.open
    /\ editor' = NoEditor
    /\ watch' = [watch EXCEPT !.running = @ \ {editor.proc}]
    /\ UNCHANGED <<quiz, bank>>
    /\ Returned("exit", [proc |-> editor.proc], PyNone)
    /\ UiCall
    /\ UNCHANGED issued

\* the "set active" button of the goals dialog with no goal to pick from
\* the menu: the quiz window calls the StatsManager
on_set_active_goal ==
    /\ set_active_goal(PyNone, "ok")
    /\ UiCall
    /\ UNCHANGED <<quiz, watch, bank, editor, issued>>

NextApp ==
    LET \* the form saved in this editor: the valid TF form
        AppForms == {form \in Forms : form.category = "TF" /\ save_refusal(form) = PyNone}
        \* the rows clicked in this editor
        AppRows == {1, 5}
    IN
        \/ on_start_theme(Some(Flexion), "same")
        \/ \E tf \in Samples(OfCategory(quiz.questions, "TF")),
              qcm \in Samples(OfCategory(quiz.questions, "QCM")) :
              start_exam_mode(tf, qcm, "same")
        \/ start_exam_mode(<<>>, <<>>, "same")
        \/ (quiz.exam_mode \/ data.attempts = <<>>) /\ on_submit(0, AllOk)
        \/ on_next("same", AllOk)
        \/ on_set_active_goal
        \/ watch.launched = 0 /\ open_question_editor(TRUE)
        \/ _watch_question_editor
        \/ \E proc \in 1 .. MaxEditors : EditorStarts(proc)
        \/ \E proc \in 1 .. MaxEditors :
              ~(editor.open /\ editor.proc = proc) /\ EditorExits(proc)
        \/ EditorCloses
        \/ editor.open /\ \E qid \in AppRows : _on_select_from_list(qid)
        \/ editor.open /\ _delete_selected(TRUE)
        \/ editor.open /\ \E form \in AppForms : _on_save(form)

\* The application started on the bank QuizBank, no editor launched yet.
SpecApp == InitQuiz /\ [][NextApp]_vars

\* ------------------------------------------------------------ properties
GoalIdsOf(goals) == {goals[i].id : i \in DOMAIN goals}
IsPrefix(a, b) == Len(a) <= Len(b) /\ SubSeq(b, 1, Len(a)) = a
GoalSet(goals) == {goals[i] : i \in DOMAIN goals}
MutatingOps ==
    {"record_attempt", "add_goal", "set_goal", "update_goal", "delete_goal", "set_active_goal"}

\* C1: in every state reached by loading a progress file and applying any
\* operations, active_goal_id is null or the id of a goal in the goal list.
C1_ActiveGoalExists ==
    data.active_goal_id = PyNone \/ data.active_goal_id[1] \in GoalIdsOf(data.goals)

\* C2: every call on a StatsManager leaves the earlier attempts as a prefix of
\* the log, and record_attempt adds exactly one attempt, at the end, whose
\* question_id, theme, category, correct and source are the arguments.
C2_AppendOnly ==
    lastOp.name # "__init__" =>
        /\ IsPrefix(pre.data.attempts, data.attempts)
        /\ lastOp.name # "record_attempt" => data.attempts = pre.data.attempts
        /\ lastOp.name = "record_attempt" =>
              /\ Len(data.attempts) = Len(pre.data.attempts) + 1
              /\ LET a == data.attempts[Len(data.attempts)]
                 IN /\ a.question_id = lastOp.args.question.id
                    /\ a.theme = lastOp.args.question.thematic
                    /\ a.category = lastOp.args.question.category
                    /\ a.correct = lastOp.args.correct
                    /\ a.source = lastOp.args.source

C2_Witness ==
    /\ lastOp.name = "record_attempt"
    /\ pre.data.attempts # <<>>
    /\ lastOp.args.source = "exam"

\* C3: after a mutating call that completed without error (update_goal only
\* when its id exists), the progress file holds the attempts, goals and
\* active_goal_id that are in memory.
C3_PersistedAfterMutation ==
    (/\ lastOp.name \in MutatingOps
     /\ lastOp.ok
     /\ lastOp.name = "update_goal" => lastOp.args.goal_id \in GoalIdsOf(pre.data.goals))
    => /\ disk.kind = "json"
       /\ disk.text.j = "object"
       /\ json_load(disk.text).attempts = data.attempts
       /\ json_load(disk.text).goals = data.goals
       /\ json_load(disk.text).active_goal_id = data.active_goal_id

\* a completed mutation that follows a failed write: the file catches up
C3_Witness ==
    /\ lastOp.name \in MutatingOps
    /\ lastOp.ok
    /\ failures > 0
    /\ data.attempts # <<>>
    /\ data.goals # <<>>
    /\ pre.disk.kind = "corrupt"

\* C4: a store that was saved and is then loaded by a fresh StatsManager has
\* the same attempts in the same order and the same goals (ids, targets,
\* labels).
C4_RoundTrip ==
    (lastOp.name = "__init__" /\ pre.disk = FileOf(json_dump(save_mirror(pre.data))))
    => /\ data.attempts = pre.data.attempts
       /\ GoalIdsOf(data.goals) = GoalIdsOf(pre.data.goals)
       /\ GoalSet(data.goals) = GoalSet(pre.data.goals)
       /\ Len(data.goals) = Len(pre.data.goals)

C4_Witness ==
    /\ lastOp.name = "__init__"
    /\ pre.disk = FileOf(json_dump(save_mirror(pre.data)))
    /\ Len(data.goals) >= 2
    /\ data.attempts # <<>>
    /\ "goal" \in DOMAIN pre.data
    /\ pre.data.goal.target # PyNone

\* C5: add_goal returns max(existing ids) + 1 (1 on an empty list), appends
\* one goal with that id, the given target and label, and makes it active
\* exactly when no goal was active before.
C5_AddGoal ==
    lastOp.name = "add_goal" =>
        LET old == pre.data.goals
            expected == IF old = <<>> THEN 1 ELSE SeqMax(GoalIdsOf(old)) + 1
            new == data.goals[Len(data.goals)]
        IN /\ lastOp.ret = Some(expected)
           /\ Len(data.goals) = Len(old) + 1
           /\ SubSeq(data.goals, 1, Len(old)) = old
           /\ new.id = expected
           /\ NumEq(new.target, lastOp.args.target_percent)
           /\ new.label = lastOp.args.label
           /\ data.active_goal_id =
                 IF pre.data.active_goal_id = PyNone THEN Some(expected)
                 ELSE pre.data.active_goal_id
           /\ data.attempts = pre.data.attempts

\* goals exist but none is active: the new goal becomes the active one
C5_Witness ==
    /\ lastOp.name = "add_goal"
    /\ Len(pre.data.goals) >= 2
    /\ pre.data.active_goal_id = PyNone
    /\ data.active_goal_id = lastOp.ret

\* C6 as stated: every id add_goal returns is greater than every id it
\* returned before.
C6_StrictlyIncreasingIds ==
    \A i, j \in DOMAIN issued : i < j => issued[i] < issued[j]

\* C6 as amended: every id add_goal returns is greater than the id of every
\* goal stored when it is called.
C6_AboveStoredIds ==
    lastOp.name = "add_goal" =>
        \A i \in DOMAIN pre.data.goals : lastOp.ret[1] > pre.data.goals[i].id

\* an id that add_goal returned before is returned again while goals remain
C6_Witness ==
    /\ lastOp.name = "add_goal"
    /\ pre.data.goals # <<>>
    /\ \E i \in 1 .. Len(issued) - 1 : issued[i] = lastOp.ret[1]

\* C7: delete_goal(g) removes the goals whose id is g and no other; when g was
\* active the pointer moves to the first goal left, or to null when none is
\* left; otherwise the pointer keeps its value.
C7_DeleteGoal ==
    lastOp.name = "delete_goal" =>
        LET g == lastOp.args.goal_id
            old == pre.data.goals
        IN /\ data.goals = SelectSeq(old, LAMBDA x : x.id # g)
           /\ data.active_goal_id =
                 IF pre.data.active_goal_id = Some(g)
                 THEN (IF data.goals = <<>> THEN PyNone ELSE Some(data.goals[1].id))
                 ELSE pre.data.active_goal_id
           /\ (old # <<>> /\ GoalIdsOf(old) = {g} /\ pre.data.active_goal_id = Some(g))
                 => data.active_goal_id = PyNone
           /\ data.attempts = pre.data.attempts

\* the active goal is deleted and two other goals are left
C7_Witness ==
    /\ lastOp.name = "delete_goal"
    /\ pre.data.active_goal_id = Some(lastOp.args.goal_id)
    /\ lastOp.args.goal_id \in GoalIdsOf(pre.data.goals)
    /\ Len(data.goals) = 2
    /\ data.goals[1].id # data.goals[2].id

\* C8: set_active_goal(id) sets the pointer to a stored id, clears it on
\* null, leaves it alone on an id no goal has; goals and attempts never
\* change.
C8_SetActiveGoal ==
    lastOp.name = "set_active_goal" =>
        LET g == lastOp.args.goal_id
        IN /\ data.goals = pre.data.goals
           /\ data.attempts = pre.data.attempts
           /\ data.active_goal_id =
                 IF g = PyNone THEN PyNone
                 ELSE IF g[1] \in GoalIdsOf(pre.data.goals) THEN g
                 ELSE pre.data.active_goal_id

\* an id that no goal has is refused while another goal is active
C8_Witness ==
    /\ lastOp.name = "set_active_goal"
    /\ lastOp.args.goal_id # PyNone
    /\ lastOp.args.goal_id[1] \notin GoalIdsOf(pre.data.goals)
    /\ pre.data.active_goal_id # PyNone
    /\ pre.data.active_goal_id[1] \in GoalIdsOf(pre.data.goals)

\* C9: update_goal on a stored id changes the target and label of the first
\* goal with that id and nothing else of the goals, the pointer or the
\* attempts; on an id no goal has, memory and file are unchanged.
C9_UpdateGoal ==
    lastOp.name = "update_goal" =>
        LET g == lastOp.args.goal_id
            old == pre.data.goals
            hits == {i \in DOMAIN old : old[i].id = g}
        IN IF hits = {}
           THEN data = pre.data /\ disk = pre.disk
           ELSE /\ Len(data.goals) = Len(old)
                /\ \A i \in DOMAIN old :
                      /\ data.goals[i].id = old[i].id
                      /\ i # SeqMin(hits) => data.goals[i] = old[i]
                /\ NumEq(data.goals[SeqMin(hits)].target, lastOp.args.target_percent)
                /\ data.goals[SeqMin(hits)].label = lastOp.args.label
                /\ data.active_goal_id = pre.data.active_goal_id
                /\ data.attempts = pre.data.attempts

\* the second of three goals gets a new target
C9_Witness ==
    /\ lastOp.name = "update_goal"
    /\ Len(pre.data.goals) = 3
    /\ pre.data.goals[2].id = lastOp.args.goal_id
    /\ pre.data.goals[1].id # lastOp.args.goal_id
    /\ data.goals[2] # pre.data.goals[2]

\* C10: get_goal(id) returns the stored goal with that id, get_goal() the
\* goal the pointer names, none when there is no such goal; the store is
\* not changed.
C10_GetGoal ==
    lastOp.name = "get_goal" =>
        LET wanted == IF lastOp.args.goal_id # PyNone THEN lastOp.args.goal_id
                      ELSE pre.data.active_goal_id
        IN /\ data = pre.data
           /\ disk = pre.disk
           /\ IF wanted = PyNone \/ (wanted # PyNone /\ wanted[1] \notin GoalIdsOf(data.goals))
              THEN lastOp.ret = PyNone
              ELSE /\ lastOp.ret # PyNone
                   /\ lastOp.ret[1] \in GoalSet(data.goals)
                   /\ lastOp.ret[1].id = wanted[1]

\* get_goal(id) finds a goal that is not the active one
C10_Witness ==
    /\ lastOp.name = "get_goal"
    /\ lastOp.args.goal_id # PyNone
    /\ lastOp.ret # PyNone
    /\ data.active_goal_id # PyNone
    /\ data.active_goal_id # lastOp.args.goal_id
    /\ data.active_goal_id[1] \in GoalIdsOf(data.goals)

\* C11: a goal operation that is invalid (update_goal, delete_goal or
\* set_active_goal with an id no stored goal has, or save_goal of the stats
\* window with a target text that is no number) is reported (the call raises
\* or returns something, the window shows the error text) and leaves goals,
\* active_goal_id and attempts unchanged.
C11_InvalidGoalOpReported ==
    LET asked == IF lastOp.name = "set_active_goal" THEN lastOp.args.goal_id
                 ELSE Some(lastOp.args.goal_id)
        unknown_id ==
            /\ lastOp.name \in {"update_goal", "delete_goal", "set_active_goal"}
            /\ asked # PyNone
            /\ asked[1] \notin GoalIdsOf(pre.data.goals)
        bad_text == lastOp.name = "save_goal" /\ float_of_text(lastOp.args.text) = PyNone
    IN /\ unknown_id => /\ ~lastOp.ok \/ lastOp.ret # PyNone
                        /\ data.goals = pre.data.goals
                        /\ data.active_goal_id = pre.data.active_goal_id
                        /\ data.attempts = pre.data.attempts
       /\ bad_text => /\ lastOp.ret = Some(FeedbackInvalid)
                      /\ data.goals = pre.data.goals
                      /\ data.active_goal_id = pre.data.active_goal_id
                      /\ data.attempts = pre.data.attempts

\* C12: a StatsManager constructed on a file that holds a legacy "goal"
\* object and no goals list, or an empty one, has exactly one goal (id 1, the
\* legacy target as a number, the legacy label, "" when there is none) and
\* active_goal_id 1 when the legacy target is not null, and no goal when it
\* is null.
C12_LegacyMigration ==
    (/\ lastOp.name = "__init__"
     /\ pre.disk.kind = "json"
     /\ pre.disk.text.j = "object"
     /\ "goal" \in DOMAIN pre.disk.text.members
     /\ ("goals" \in DOMAIN pre.disk.text.members
            => pre.disk.text.members.goals.items = <<>>))
    => LET legacy == pre.disk.text.members.goal.members
       IN IF legacy.target.j = "null"
          THEN data.goals = <<>>
          ELSE /\ Len(data.goals) = 1
               /\ data.goals[1].id = 1
               /\ data.goals[1].target.n = legacy.target.digits
               /\ data.goals[1].label =
                     (IF "label" \in DOMAIN legacy THEN legacy.label.chars ELSE "")
               /\ data.active_goal_id = Some(1)

\* a legacy file with a target, an empty goals list and a pointer to goal 2
C12_Witness ==
    /\ lastOp.name = "__init__"
    /\ pre.disk.kind = "json"
    /\ pre.disk.text.j = "object"
    /\ DOMAIN pre.disk.text.members = {"goal", "goals", "active_goal_id"}
    /\ pre.disk.text.members.goal.members.target.j = "number"
    /\ pre.disk.text.members.active_goal_id = JInt(2)
    /\ data.goals # <<>>

\* the last call ran save() and the write succeeded
CallSaved ==
    /\ lastOp.ok
    /\ \/ lastOp.name \in {"record_attempt", "set_goal", "add_goal", "delete_goal",
                           "set_active_goal"}
       \/ lastOp.name = "update_goal" /\ lastOp.args.goal_id \in GoalIdsOf(pre.data.goals)
       \/ lastOp.name = "save_goal" /\ lastOp.ret # Some(FeedbackInvalid)

\* C13: after every save the "goal" member of the file holds the target and
\* label of the goal whose id is active_goal_id (the first such goal), or a
\* null target and an empty label when no goal is active; and a StatsManager
\* constructed on a file whose goals list is not empty has exactly the goals
\* of that list, whatever the "goal" member says.
C13_GoalMirror ==
    /\ CallSaved =>
          /\ disk.kind = "json"
          /\ disk.text.j = "object"
          /\ "goal" \in DOMAIN disk.text.members
          /\ LET mirror == disk.text.members.goal.members
                 hits == IF data.active_goal_id = PyNone THEN {}
                         ELSE {i \in DOMAIN data.goals :
                                  data.goals[i].id = data.active_goal_id[1]}
             IN IF hits = {}
                THEN mirror = [target |-> JNull, label |-> JString("")]
                ELSE LET g == data.goals[SeqMin(hits)]
                     IN mirror = [target |-> (IF g.target.k = "float" THEN JFloat(g.target.n)
                                              ELSE JInt(g.target.n)),
                                  label |-> JString(g.label)]
    /\ (/\ lastOp.name = "__init__"
        /\ pre.disk.kind = "json"
        /\ pre.disk.text.j = "object"
        /\ "goals" \in DOMAIN pre.disk.text.members
        /\ pre.disk.text.members.goals.items # <<>>)
       => LET items == pre.disk.text.members.goals.items
          IN /\ Len(data.goals) = Len(items)
             /\ \A i \in DOMAIN items :
                   /\ data.goals[i].id = items[i].members.id.digits
                   /\ data.goals[i].target.n = items[i].members.target.digits
                   /\ data.goals[i].label = items[i].members.label.chars

\* a save while the active goal is the second of the list and differs from
\* the first
C13_Witness ==
    /\ CallSaved
    /\ Len(data.goals) >= 2
    /\ data.active_goal_id = Some(data.goals[2].id)
    /\ data.goals[2].id # data.goals[1].id
    /\ data.goals[2].target # data.goals[1].target

\* C14: constructing a StatsManager on a progress file whose content is
\* corrupted or unparseable does not raise, and leaves the empty default
\* store (no attempts, no goals, no active goal) on which calls can be made.
C14_CorruptFileResets ==
    (lastOp.name = "__init__" /\ pre.disk.kind \in {"corrupt", "undecodable"})
    => /\ lastOp.ok
       /\ Constructed
       /\ data.attempts = <<>>
       /\ data.goals = <<>>
       /\ data.active_goal_id = PyNone

\* C15: a mutating call during which the write of the progress file failed
\* ends in an error (the exception of save() leaves the method), and a
\* mutating call that ended normally after changing the store has written
\* it: the file is the JSON text of the data in memory.
C15_WriteFailureReported ==
    lastOp.name \in MutatingOps =>
        /\ failures > pre.failures => ~lastOp.ok
        /\ (lastOp.ok /\ data # pre.data) => disk = FileOf(json_dump(data))

\* json.dump fails inside record_attempt after the file was truncated
C15_Witness ==
    /\ lastOp.name = "record_attempt"
    /\ failures > pre.failures
    /\ ~lastOp.ok
    /\ pre.disk.kind = "json"
    /\ disk.kind = "corrupt"
    /\ Len(data.attempts) = Len(pre.data.attempts) + 1

\* positions of the log that a theme argument selects: all of them for no
\* theme and for "Tous", those of that theme otherwise
Selected(attempts, theme) ==
    IF theme = PyNone \/ theme = Some("Tous") THEN DOMAIN attempts
    ELSE {i \in DOMAIN attempts : "theme" \in DOMAIN attempts[i] /\ attempts[i].theme = theme[1]}
CorrectIn(attempts, positions) ==
    {i \in positions : "correct" \in DOMAIN attempts[i] /\ attempts[i].correct}

\* C16: compute_overall(theme) returns the number of selected attempts as
\* total, the number of correct ones among them as correct, rate 0 when
\* total is 0 and 100 * correct / total otherwise; correct <= total; seven
\* correct and three incorrect attempts give total 10, correct 7, rate 70.
C16_ComputeOverall ==
    lastOp.name = "compute_overall" =>
        LET r == lastOp.ret
            sel == Selected(data.attempts, lastOp.args.theme)
        IN /\ r.total = Cardinality(sel)
           /\ r.correct = Cardinality(CorrectIn(data.attempts, sel))
           /\ r.correct <= r.total
           /\ r.total = 0 => r.rate.num = 0 /\ r.rate.den # 0
           /\ r.total # 0 => /\ r.rate.den # 0
                             /\ r.rate.num * r.total = 100 * r.correct * r.rate.den
           /\ (data.attempts = ExampleLog /\ lastOp.args.theme = PyNone)
                 => /\ r.total = 10 /\ r.correct = 7
                    /\ r.rate.num = 70 * r.rate.den

\* a theme that selects part of the log, with correct and incorrect attempts
C16_Witness ==
    /\ lastOp.name = "compute_overall"
    /\ lastOp.args.theme = Some("Flexion")
    /\ lastOp.ret.total >= 2
    /\ lastOp.ret.total < Len(data.attempts)
    /\ lastOp.ret.correct > 0
    /\ lastOp.ret.correct < lastOp.ret.total

\* C17 as stated: every entry of theme_breakdown() has the total, correct and
\* rate that compute_overall returns for its theme name, also for the name
\* "Tous" and for attempts without a theme field.
C17_BreakdownMatchesOverall ==
    (lastOp.name = "theme_breakdown" /\ lastOp.args.theme = PyNone) =>
        \A t \in DOMAIN lastOp.ret : lastOp.ret[t] = compute_overall(data, Some(t))

\* C17 as amended: every entry of theme_breakdown() whose name is not "Tous",
\* and is not "Unknown" while some attempt lacks its theme field, has the
\* total, correct and rate that compute_overall returns for that name.
C17_BreakdownMatchesOverallOfThemes ==
    (lastOp.name = "theme_breakdown" /\ lastOp.args.theme = PyNone) =>
        \A t \in DOMAIN lastOp.ret :
            (/\ t # "Tous"
             /\ t = "Unknown" => \A i \in DOMAIN data.attempts : "theme" \in DOMAIN data.attempts[i])
            => lastOp.ret[t] = compute_overall(data, Some(t))

\* a breakdown of several themes, one of them with correct and incorrect
\* attempts
C17_Witness ==
    /\ lastOp.name = "theme_breakdown"
    /\ lastOp.args.theme = PyNone
    /\ Cardinality(DOMAIN lastOp.ret) >= 2
    /\ "Flexion" \in DOMAIN lastOp.ret
    /\ lastOp.ret["Flexion"].total = 2
    /\ lastOp.ret["Flexion"].correct = 1

\* what C18 says progress_speed(w) returns on a log: nothing below 2w
\* attempts, otherwise the percentage of correct attempts among the last w
\* minus the percentage among the w before them
SpeedAsClaimed ==
    LET w == lastOp.args.window
        n == Len(data.attempts)
        recent == CorrectIn(data.attempts, (n - w + 1) .. n)
        previous == CorrectIn(data.attempts, (n - 2 * w + 1) .. (n - w))
    IN /\ lastOp.ok
       /\ IF n < 2 * w THEN lastOp.ret = PyNone
          ELSE /\ lastOp.ret # PyNone
               /\ lastOp.ret[1].den # 0
               /\ lastOp.ret[1].num * w =
                     (100 * Cardinality(recent) - 100 * Cardinality(previous))
                        * lastOp.ret[1].den

\* C18 as stated: for every window, progress_speed returns what is claimed
\* and does not fail.
C18_ProgressSpeed ==
    lastOp.name = "progress_speed" => SpeedAsClaimed

\* C18 as amended: for every window w >= 1, progress_speed returns what is
\* claimed and does not fail.
C18_ProgressSpeedPositiveWindow ==
    (lastOp.name = "progress_speed" /\ lastOp.args.window >= 1) => SpeedAsClaimed

\* window 1 on three attempts: only the last two count
C18_Witness ==
    /\ lastOp.name = "progress_speed"
    /\ lastOp.args.window = 1
    /\ Len(data.attempts) = 3
    /\ data.attempts[1].correct
    /\ ~data.attempts[2].correct
    /\ data.attempts[3].correct
    /\ lastOp.ret # PyNone
    /\ lastOp.ret[1].num = 100 * lastOp.ret[1].den

\* what C19 says of the points moving_success returns: one per filtered
\* attempt, numbered 1, 2, 3, ..., each rate between 0 and 100
PointsAsClaimed ==
    /\ lastOp.ok
    /\ Len(lastOp.ret) = Cardinality(Selected(data.attempts, lastOp.args.theme))
    /\ \A i \in DOMAIN lastOp.ret :
          /\ lastOp.ret[i][1] = i
          /\ lastOp.ret[i][2].den > 0
          /\ lastOp.ret[i][2].num >= 0
          /\ lastOp.ret[i][2].num <= 100 * lastOp.ret[i][2].den

\* C19 as stated: for every attempt log, theme filter and window the points
\* of moving_success are as claimed.
C19_MovingSuccessPoints ==
    lastOp.name = "moving_success" => PointsAsClaimed

\* C19 as amended: for every attempt log, theme filter and window w >= 1 the
\* points of moving_success are as claimed.
C19_MovingSuccessPointsPositiveWindow ==
    (lastOp.name = "moving_success" /\ lastOp.args.window >= 1) => PointsAsClaimed

\* a theme that keeps two of three attempts
C19_Witness ==
    /\ lastOp.name = "moving_success"
    /\ lastOp.args.theme = Some("Flexion")
    /\ lastOp.args.window = 2
    /\ Len(data.attempts) = 3
    /\ Len(lastOp.ret) = 2
    /\ lastOp.ret[2][2].num = 50 * lastOp.ret[2][2].den

\* the position in the log of the attempt that comes k-th when the selected
\* attempts are ordered by timestamp, those of equal timestamp by position
KthByTime(attempts, positions, k) ==
    CHOOSE p \in positions :
        Cardinality({q \in positions :
                        \/ attempts[q].ts < attempts[p].ts
                        \/ attempts[q].ts = attempts[p].ts /\ q <= p}) = k

\* C20: for a window w >= 1 the rate of the i-th point of
\* moving_success(w, theme) is 100 times the fraction of correct attempts
\* among the max(1, i - w + 1)-th to i-th of the filtered attempts in
\* timestamp order (equal timestamps in insertion order), whatever the order
\* of the log.
C20_MovingSuccessRates ==
    (lastOp.name = "moving_success" /\ lastOp.args.window >= 1) =>
        LET w == lastOp.args.window
            sel == Selected(data.attempts, lastOp.args.theme)
        IN \A i \in DOMAIN lastOp.ret :
              LET first == IF i - w + 1 > 1 THEN i - w + 1 ELSE 1
                  hits == {k \in first .. i :
                              data.attempts[KthByTime(data.attempts, sel, k)].correct}
              IN lastOp.ret[i][2].num * (i - first + 1)
                    = 100 * Cardinality(hits) * lastOp.ret[i][2].den

\* three attempts inserted against the order of their timestamps, two of
\* them at the same time, and a window that drops the oldest
C20_Witness ==
    /\ lastOp.name = "moving_success"
    /\ lastOp.args.window = 2
    /\ lastOp.args.theme = PyNone
    /\ Len(data.attempts) = 3
    /\ data.attempts[1].ts = 20 /\ ~data.attempts[1].correct
    /\ data.attempts[2].ts = 20 /\ data.attempts[2].correct
    /\ data.attempts[3].ts = 10 /\ data.attempts[3].correct
    /\ lastOp.ret[2][2].num = 50 * lastOp.ret[2][2].den
    /\ lastOp.ret[3][2].num = 50 * lastOp.ret[3][2].den

\* C26: active_goal_id survives a save/reload cycle: when a StatsManager is
\* constructed on the file that the previous one saved, it holds the same
\* active_goal_id as the store had before, also when set_active_goal(None)
\* had cleared the pointer while goals exist.
C26_ActivePointerSurvivesReload ==
    (/\ lastOp.name = "__init__"
     /\ lastOp.ok
     /\ pre.disk = FileOf(json_dump(pre.data)))
    => data.active_goal_id = pre.data.active_goal_id

\* C27: in every state reached from an empty store by add_goal, set_goal,
\* update_goal, delete_goal and set_active_goal, the goal ids are pairwise
\* distinct; set_goal adds at most one goal, and after it returns
\* active_goal_id is the returned id and a goal with that id and the given
\* target (as a float) exists.
C27_DistinctGoalIds ==
    /\ \A i, j \in 1 .. Len(data.goals) :
          data.goals[i].id = data.goals[j].id => i = j
    /\ (lastOp.name = "set_goal" /\ lastOp.ok)
       => /\ Len(data.goals) <= Len(pre.data.goals) + 1
          /\ data.active_goal_id = lastOp.ret
          /\ \E i \in 1 .. Len(data.goals) :
                /\ data.goals[i].id = lastOp.ret[1]
                /\ data.goals[i].target = PyFloat(lastOp.args.target_percent.n)

\* set_goal was called with the pointer cleared and two goals stored: it
\* re-activates and updates the first goal and adds none
C27_Witness ==
    /\ lastOp.name = "set_goal"
    /\ Len(pre.data.goals) >= 2
    /\ pre.data.active_goal_id = PyNone
    /\ Len(data.goals) = Len(pre.data.goals)
    /\ data.active_goal_id = Some(data.goals[1].id)
    /\ data.goals[1].target # pre.data.goals[1].target

\* the question on display when the last call started
Shown == prev.quiz.filtered_questions[prev.quiz.current_index + 1]

\* the last call was a click on Submit that was accepted: a session was
\* under way and an answer was selected
AcceptedSubmit ==
    /\ lastOp.name = "on_submit"
    /\ prev.quiz.filtered_questions # <<>>
    /\ lastOp.args.selection >= 0

\* the attempts the call added at the end of the log
Appended == SubSeq(data.attempts, Len(pre.data.attempts) + 1, Len(data.attempts))

\* C21: attempts are created at submission in a thematic session and only
\* at the end in an exam.  An accepted practice submit appends exactly one
\* attempt, of source "practice" and of the question on display.  A call
\* that leaves an exam in progress appends nothing.  The submit that ends
\* an exam appends one attempt of source "exam" for each question of the
\* exam set, in the order of the set.
C21_AttemptsAtSubmitOrAtExamEnd ==
    /\ IsPrefix(pre.data.attempts, data.attempts)
    /\ (AcceptedSubmit /\ ~prev.quiz.exam_mode)
       => /\ Len(Appended) = 1
          /\ Appended[1].source = "practice"
          /\ Appended[1].question_id = Shown.id
    /\ quiz.exam_mode => Appended = <<>>
    /\ (AcceptedSubmit /\ prev.quiz.exam_mode /\ ~quiz.exam_mode)
       => /\ Len(Appended) = Len(prev.quiz.filtered_questions)
          /\ \A i \in 1 .. Len(Appended) :
                /\ Appended[i].source = "exam"
                /\ Appended[i].question_id = prev.quiz.filtered_questions[i].id
    /\ Appended # <<>> => AcceptedSubmit

\* an exam was finished after an attempt made in a thematic session: the
\* log holds the practice attempt followed by the six of the exam, one of
\* them of a wrong answer
C21_Witness ==
    /\ AcceptedSubmit /\ prev.quiz.exam_mode /\ ~quiz.exam_mode
    /\ Len(data.attempts) = 7
    /\ data.attempts[1].source = "practice"
    /\ \E i \in 2 .. 7 : ~data.attempts[i].correct
    /\ \E i \in 2 .. 7 : data.attempts[i].correct

\* the attempt log a StatsManager would load from the progress file
LogOnDisk == load(DefaultData, disk).attempts

\* C28: record_attempt changes memory before it writes.  When the write of
\* an accepted practice submit fails, the new attempt is in the log in
\* memory and not in the file; a later call whose save succeeds writes the
\* whole log, that attempt included.  When a write fails during
\* finish_exam the loop stops: the questions up to the failing one have
\* their attempt in memory, in exam order, the others have none, the file
\* lacks the last of them, and exam_mode is still true.
C28_MemoryBeforeWrite ==
    /\ (AcceptedSubmit /\ ~prev.quiz.exam_mode /\ ~lastOp.ok)
       => /\ Len(Appended) = 1
          /\ Appended[1].question_id = Shown.id
          /\ IsPrefix(pre.data.attempts, data.attempts)
          /\ Len(LogOnDisk) < Len(data.attempts)
    /\ (lastOp.name \in {"on_submit", "set_active_goal"} /\ lastOp.ok
        /\ (lastOp.name = "on_submit" => Appended # <<>>))
       => /\ disk = FileOf(json_dump(data))
          /\ LogOnDisk = data.attempts
    /\ (AcceptedSubmit /\ prev.quiz.exam_mode /\ ~lastOp.ok)
       => /\ quiz.exam_mode
          /\ IsPrefix(pre.data.attempts, data.attempts)
          /\ Len(Appended) \in 1 .. Len(quiz.filtered_questions)
          /\ \A i \in 1 .. Len(Appended) :
                /\ Appended[i].source = "exam"
                /\ Appended[i].question_id = quiz.filtered_questions[i].id
          /\ Len(LogOnDisk) < Len(data.attempts)

\* the third write of finish_exam failed: three exam attempts are in
\* memory, the file holds the first two, the exam is still in exam mode
C28_Witness ==
    /\ AcceptedSubmit /\ prev.quiz.exam_mode /\ ~lastOp.ok
    /\ quiz.exam_mode
    /\ Len(Appended) = 3
    /\ Len(quiz.filtered_questions) = 6
    /\ disk.kind = "json"
    /\ Len(LogOnDisk) = Len(pre.data.attempts) + 2

\* the last call ran rounds of the recording loop of finish_exam
LoopRan == Appended # <<>> /\ Appended[1].source = "exam"

\* C29: an exam is scored once and only when complete.  The recording loop
\* of finish_exam runs only from the Submit click on the last question of
\* an exam in progress, when each of the 6 exam questions has a stored
\* answer; it leaves both buttons disabled, so that no click can reach it
\* again for this exam.  Starting a thematic session during an exam ends
\* exam mode and records no attempt, and the answers that follow are
\* recorded as practice attempts.
C29_ExamScoredOnce ==
    /\ (lastOp.name = "on_start_theme" /\ lastOp.args.selection # PyNone
        /\ prev.quiz.exam_mode)
       => /\ ~quiz.exam_mode
          /\ data.attempts = pre.data.attempts
    /\ LoopRan
       => /\ AcceptedSubmit
          /\ prev.quiz.exam_mode
          /\ prev.quiz.submit_btn = "normal"
          /\ Len(quiz.filtered_questions) = 6
          /\ Len(quiz.exam_user_answers) = 6
          /\ \A i \in 1 .. 6 : quiz.exam_user_answers[i] # PyNone
          /\ quiz.submit_btn = "disabled"
          /\ quiz.next_btn = "disabled"
    /\ (quiz.exam_mode /\ quiz.submit_btn = "normal")
       => quiz.exam_user_answers[quiz.current_index + 1] = PyNone
    /\ (quiz.exam_mode /\ quiz.current_index = 5) => quiz.next_btn = "disabled"
    /\ ~prev.quiz.exam_mode => ~LoopRan

\* the fourth write of the recording loop failed: the exam is still in exam
\* mode with its six answers stored, and neither button can be clicked
C29_Witness ==
    /\ LoopRan
    /\ ~lastOp.ok
    /\ Len(Appended) = 4
    /\ quiz.exam_mode
    /\ quiz.current_index = 5
    /\ quiz.submit_btn = "disabled" /\ quiz.next_btn = "disabled"

\* a thematic session is under way
InPractice ==
    quiz.filtered_questions # <<>> /\ ~quiz.exam_mode /\ quiz.current_theme # PyNone

\* the answer picked by the last Submit click is the answer of the question
PickedRight ==
    IF Shown.category = "TF"
    THEN PyBool(lastOp.args.selection = 0) = Shown.answer
    ELSE PyStr(ChoicesOf(Shown)[lastOp.args.selection + 1]) = Shown.answer

SameQuestions(a, b) ==
    /\ Len(a) = Len(b)
    /\ \A q \in {a[i] : i \in DOMAIN a} :
          Cardinality({i \in DOMAIN a : a[i] = q}) = Cardinality({i \in DOMAIN b : b[i] = q})

\* C30: in a thematic session Submit and Next are never both enabled, so a
\* displayed question is submitted at most once before the next is shown.
\* An accepted submit raises total by 1 and appends one attempt, and raises
\* the score by 1 exactly when the picked answer is the right one; Next
\* and a refused submit change neither and append nothing; a session
\* starts with total 0.  So 0 <= score <= total, and the last `total`
\* attempts of the log are the practice attempts of the session.  Next on
\* the last question reshuffles the set and shows index 0; the index is
\* always inside the set.
C30_PracticeSession ==
    /\ ~(quiz.submit_btn = "normal" /\ quiz.next_btn = "normal")
    /\ 0 <= quiz.score /\ quiz.score <= quiz.total
    /\ quiz.filtered_questions # <<>>
       => (0 <= quiz.current_index
           /\ quiz.current_index < Len(quiz.filtered_questions))
    /\ (AcceptedSubmit /\ ~prev.quiz.exam_mode)
       => /\ prev.quiz.submit_btn = "normal"
          /\ quiz.submit_btn = "disabled" /\ quiz.next_btn = "normal"
          /\ quiz.total = prev.quiz.total + 1
          /\ quiz.score = prev.quiz.score + (IF PickedRight THEN 1 ELSE 0)
          /\ Len(Appended) = 1
          /\ Appended[1].correct = PickedRight
          /\ quiz.current_index = prev.quiz.current_index
          /\ quiz.filtered_questions = prev.quiz.filtered_questions
    /\ (lastOp.name = "on_submit" /\ ~AcceptedSubmit)
       => quiz = prev.quiz /\ Appended = <<>>
    /\ (lastOp.name = "on_next" /\ ~prev.quiz.exam_mode)
       => /\ prev.quiz.next_btn = "normal"
          /\ quiz.submit_btn = "normal" /\ quiz.next_btn = "disabled"
          /\ quiz.total = prev.quiz.total /\ quiz.score = prev.quiz.score
          /\ Appended = <<>>
          /\ SameQuestions(quiz.filtered_questions, prev.quiz.filtered_questions)
          /\ quiz.current_index =
                (prev.quiz.current_index + 1) % Len(prev.quiz.filtered_questions)
          /\ quiz.current_index # 0
             => quiz.filtered_questions = prev.quiz.filtered_questions
    /\ (lastOp.name = "on_start_theme" /\ lastOp.args.selection # PyNone)
       => InPractice /\ quiz.total = 0 /\ quiz.score = 0 /\ quiz.current_index = 0
          /\ Appended = <<>>
    /\ InPractice
       => /\ quiz.total <= Len(data.attempts)
          /\ \A i \in 1 .. Len(data.attempts) :
                i > Len(data.attempts) - quiz.total
                => /\ data.attempts[i].source = "practice"
                   /\ \E k \in DOMAIN quiz.filtered_questions :
                         quiz.filtered_questions[k].id = data.attempts[i].question_id

\* Next was clicked on the last question of a session of two questions,
\* one answered right and one wrong: the set is shown again from index 0
\* in another order
C30_Witness ==
    /\ lastOp.name = "on_next"
    /\ InPractice
    /\ prev.quiz.current_index = 1
    /\ quiz.current_index = 0
    /\ quiz.filtered_questions # prev.quiz.filtered_questions
    /\ quiz.total = 2 /\ quiz.score = 1
    /\ Len(data.attempts) = 3

\* the bank schema for one question
ValidQuestion(q) ==
    IF q.category = "TF"
    THEN q.choices = PyNone /\ q.answer.k = "bool"
    ELSE /\ q.category = "QCM"
         /\ q.choices # PyNone
         /\ Len(q.choices[1]) >= 2
         /\ \A i, j \in DOMAIN q.choices[1] :
               q.choices[1][i] = q.choices[1][j] => i = j
         /\ \A i \in DOMAIN q.choices[1] :
               q.choices[1][i] # <<>> /\ strip(q.choices[1][i]) = q.choices[1][i]
         /\ q.answer.k = "str"
         /\ \E i \in DOMAIN q.choices[1] : q.choices[1][i] = q.answer.s

\* the questions of the bank file that the last call put there
Written ==
    IF bank.kind # "json" THEN {}
    ELSE {bank.questions[i] : i \in DOMAIN bank.questions}
         \ {prev.editor.questions[i] : i \in DOMAIN prev.editor.questions}

\* C23: every question that Save writes to the bank satisfies the bank
\* schema (TF: null choices and a boolean answer; QCM: at least 2 pairwise
\* distinct non-empty choices and an answer that is one of them), and a
\* Save that is refused leaves the bank file and the editor's list as they
\* were.
C23_EditorWritesValidQuestions ==
    lastOp.name = "_on_save"
    => IF lastOp.ret \in {Some("Saved"), Some("Mis a jour")}
       THEN \A q \in Written : ValidQuestion(q)
       ELSE bank = prev.bank /\ editor.questions = prev.editor.questions

\* the ids of a question list, in list order
IdsInOrder(questions) == [i \in DOMAIN questions |-> questions[i].id]

\* C25: under the editor the ids of the bank stay pairwise distinct (the
\* editor starts on a bank whose ids are).  A Save of a new question
\* appends it with the id max(existing ids) + 1, or 1 when the bank is
\* empty, and leaves the other questions alone; a Save of an edited
\* question leaves the number of questions and the id at every position
\* as they were; a confirmed delete removes the question with the target
\* id and no other.  The file holds the editor's list after each of them.
C25_QuestionIdsUnique ==
    /\ \A i, j \in DOMAIN editor.questions :
          editor.questions[i].id = editor.questions[j].id => i = j
    /\ bank.kind = "json" =>
          \A i, j \in DOMAIN bank.questions :
             bank.questions[i].id = bank.questions[j].id => i = j
    /\ (lastOp.name = "_on_save" /\ lastOp.ret = Some("Saved"))
       => /\ Len(editor.questions) = Len(prev.editor.questions) + 1
          /\ IsPrefix(prev.editor.questions, editor.questions)
          /\ editor.questions[Len(editor.questions)].id =
                (IF prev.editor.questions = <<>> THEN 1
                 ELSE SeqMax(QuestionIds(prev.editor.questions)) + 1)
          /\ bank = BankFileOf(editor.questions)
    /\ (lastOp.name = "_on_save" /\ lastOp.ret = Some("Mis a jour"))
       => /\ IdsInOrder(editor.questions) = IdsInOrder(prev.editor.questions)
          /\ \A i \in DOMAIN editor.questions :
                editor.questions[i].id # prev.editor.selected_question_id[1]
                => editor.questions[i] = prev.editor.questions[i]
          /\ bank = BankFileOf(editor.questions)
    /\ (lastOp.name = "_delete_selected" /\ lastOp.ret = Some("Suppression"))
       => LET target == prev.editor.selected_question_id[1]
              kept == {i \in DOMAIN prev.editor.questions :
                          prev.editor.questions[i].id # target}
          IN /\ editor.questions = Pick(prev.editor.questions, kept)
             /\ target \in QuestionIds(prev.editor.questions)
                => Len(editor.questions) = Len(prev.editor.questions) - 1
             /\ bank = BankFileOf(editor.questions)

\* the first question of a bank whose ids are not in list order was edited
\* into a QCM: it is still first and has its id, the other is as it was
C25_Witness ==
    /\ lastOp.name = "_on_save" /\ lastOp.ret = Some("Mis a jour")
    /\ Len(editor.questions) >= 2
    /\ editor.questions[1].id > editor.questions[2].id
    /\ prev.editor.selected_question_id = Some(editor.questions[1].id)
    /\ editor.questions[1].category = "QCM"
    /\ prev.editor.questions[1].category = "TF"

\* an editor launched by the quiz window has exited and the window has not
\* yet noticed
ExitedUnnoticed ==
    \E i \in DOMAIN watch.editor_processes :
       watch.editor_processes[i] \notin watch.running

\* the last callback reloaded the question bank from the file
Reloaded ==
    /\ lastOp.name = "_watch_question_editor"
    /\ lastOp.ret = Some("reloaded")
    /\ quiz.questions = load_questions(bank)

\* C24: while the event loop runs its timer callbacks, the exit of an
\* editor that the quiz window launched is followed by a reload of the
\* question bank, whatever the number of editors opened; and once none of
\* the launched editors is running the polling stops (no callback is left
\* pending) unless another editor is launched.
C24_ExitLeadsToReload ==
    /\ ExitedUnnoticed ~> Reloaded
    /\ (watch.running = {}) ~> (watch.timers = 0 \/ watch.running # {})
    /\ [](watch.editor_processes # <<>> => watch.timers > 0)

\* two editors were launched, one has exited after the bank was changed:
\* the callback reloaded the new bank and keeps polling for the other
C24_Witness ==
    /\ Reloaded
    /\ quiz.questions # prev.quiz.questions
    /\ Len(watch.editor_processes) = 1
    /\ watch.launched = 2
    /\ watch.timers >= 1

\* C22: no operation of the quiz window (loading and reloading the
\* questions, starting a thematic session or an exam, Submit, Next, the end
\* of an exam, a call of the StatsManager, launching and watching editors)
\* changes the question bank file; the file changes only in the editor's
\* save and delete operations.
RunnerOps ==
    {"__init__", "on_start_theme", "start_exam_mode", "on_submit", "on_next",
     "set_active_goal", "open_question_editor", "_watch_question_editor"}
C22_OnlyEditorWritesBank ==
    /\ lastOp.name \in RunnerOps => bank = prev.bank
    /\ bank # prev.bank => lastOp.name \in {"_on_save", "_delete_selected"}
\* the quiz window has reloaded a bank the editor changed and left it as
\* the editor wrote it
C22_Witness ==
    /\ lastOp.name = "_watch_question_editor"
    /\ lastOp.ret = Some("reloaded")
    /\ quiz.questions # prev.quiz.questions
    /\ bank # BankFileOf(QuizBank)
    /\ bank = prev.bank
    /\ quiz.questions = load_questions(bank)

====
